---- MODULE Spec2Model ----
(***************************************************************************)
(* A model of the Flask CRUD API of src/app.py: the validation utilities,  *)
(* the JSON/XML response encoder, the JWT token service and auth gate, the *)
(* per-resource handlers with the SQL statement each one issues, and       *)
(* Flask's dispatch of a request to a view and to the error handlers.      *)
(*                                                                         *)
(* Python values are records [k, n, s]: k the type ("null", "bool", "int", *)
(* "real", "str", "list", "date", "dec"), n the number (reals and decimals *)
(* in tenths, a date as the integer yyyymmdd), s the characters of a       *)
(* string, each character a string of length one.                         *)
(***************************************************************************)
EXTENDS Integers, Sequences, FiniteSets, TLC

\* db: the rows of each table, by primary key; autoinc: each table's
\* AUTO_INCREMENT counter; now: the clock, in ticks; issued: the tokens login
\* has returned; python311: whether the interpreter is Python 3.11 or later;
\* req, resp: the request being handled and its response, until the request
\* context is popped; stmts: the SQL statements the
\* last request executed; writes: how many requests have changed the tables;
\* threads: the requests the threaded server handles at the same time, each with
\* its position in its handler
VARIABLES db, autoinc, now, issued, python311, req, resp, stmts, writes, threads

vars == <<db, autoinc, now, issued, python311, req, resp, stmts, writes, threads>>

-----------------------------------------------------------------------------
(* Bounds of the model *)

\* primary keys and path identifiers range over 1..MaxId
MaxId == 2
\* the requests of one behaviour change the tables at most this many times
MaxWrites == 1
\* clock ticks per second: datetime.now() and PyJWT read fractions of a second
TicksPerSec == 2
\* the clock is observed up to this many ticks past the start and past the
\* lifetime of a token
MaxSkew == 2
\* the logins of one behaviour return at most this many tokens
MaxTokens == 2

(* Program constants *)

\* expires_minutes=60 of login, in seconds (expires_in of the login reply)
TokenTTL == 3600

-----------------------------------------------------------------------------
(* Python values *)

None == [k |-> "null", n |-> 0, s |-> <<>>]
IntV(i) == [k |-> "int", n |-> i, s |-> <<>>]
RealV(t) == [k |-> "real", n |-> t, s |-> <<>>]
BoolV(b) == [k |-> "bool", n |-> IF b THEN 1 ELSE 0, s |-> <<>>]
StrV(cs) == [k |-> "str", n |-> 0, s |-> cs]
ListV(len) == [k |-> "list", n |-> len, s |-> <<>>]
DateV(ymd) == [k |-> "date", n |-> ymd, s |-> <<>>]
DecV(t) == [k |-> "dec", n |-> t, s |-> <<>>]

\* Python truthiness, as `x or default` and `if x` use it
Truthy(v) ==
  CASE v.k = "null" -> FALSE
    [] v.k = "str" -> v.s # <<>>
    [] v.k = "date" -> TRUE
    [] OTHER -> v.n # 0

Whitespace == {" ", "\n", "\t"}
Digits == {"0", "1", "2", "3", "4", "5", "6", "7", "8", "9"}
DigitVal == [c \in Digits |->
  CASE c = "0" -> 0 [] c = "1" -> 1 [] c = "2" -> 2 [] c = "3" -> 3 [] c = "4" -> 4
    [] c = "5" -> 5 [] c = "6" -> 6 [] c = "7" -> 7 [] c = "8" -> 8 [] c = "9" -> 9]
DigitChar == [d \in 0..9 |-> CHOOSE c \in Digits : DigitVal[c] = d]

RECURSIVE lstrip(_)
lstrip(cs) == IF cs # <<>> /\ Head(cs) \in Whitespace THEN lstrip(Tail(cs)) ELSE cs

RECURSIVE rstrip(_)
rstrip(cs) ==
  IF cs # <<>> /\ cs[Len(cs)] \in Whitespace THEN rstrip(SubSeq(cs, 1, Len(cs) - 1)) ELSE cs

\* str.strip()
strip(cs) == rstrip(lstrip(cs))

\* str.lower() on the letters the model uses
lowerChar(c) ==
  CASE c = "X" -> "x" [] c = "M" -> "m" [] c = "L" -> "l" [] c = "J" -> "j"
    [] c = "S" -> "s" [] c = "O" -> "o" [] c = "N" -> "n" [] c = "C" -> "c"
    [] c = "V" -> "v" [] c = "A" -> "a" [] c = "B" -> "b" [] OTHER -> c
lower(cs) == [i \in 1..Len(cs) |-> lowerChar(cs[i])]

AllDigits(cs) == \A i \in 1..Len(cs) : cs[i] \in Digits

RECURSIVE DigitsValue(_)
DigitsValue(cs) ==
  IF cs = <<>> THEN 0
  ELSE 10 * DigitsValue(SubSeq(cs, 1, Len(cs) - 1)) + DigitVal[cs[Len(cs)]]

\* zero-padded decimal digits of n, as "%0<width>d"
RECURSIVE PadDigits(_, _)
PadDigits(n, width) ==
  IF width = 0 THEN <<>> ELSE Append(PadDigits(n \div 10, width - 1), DigitChar[n % 10])

\* a Python exception: its class and the words of str(exc)
Exc(type, msg) == [type |-> type, msg |-> msg]
NoExc == Exc("", <<>>)
BadRequest(msg) == Exc("BadRequest", <<"400", "Bad", "Request:">> \o msg)

\* the result of a call that may raise: the value, or the exception
Ok(v) == [exc |-> NoExc, v |-> v]
Raise(e) == [exc |-> e, v |-> None]
Raised(x) == x.exc.type # ""

-----------------------------------------------------------------------------
(* Validation utilities *)

\* int(str): surrounding whitespace, an optional sign, digits
IntLiteral(cs) ==
  LET t == strip(cs)
      signed == t # <<>> /\ Head(t) \in {"+", "-"}
      ds == IF signed THEN Tail(t) ELSE t
  IN IF ds # <<>> /\ AllDigits(ds)
       THEN Ok(IntV(IF signed /\ Head(t) = "-" THEN 0 - DigitsValue(ds) ELSE DigitsValue(ds)))
       ELSE Raise(Exc("ValueError", <<"invalid", "literal">>))

\* int(value)
PyInt(v) ==
  CASE v.k \in {"int", "bool"} -> Ok(IntV(v.n))
    [] v.k = "real" -> Ok(IntV(IF v.n >= 0 THEN v.n \div 10 ELSE 0 - ((0 - v.n) \div 10)))
    [] v.k = "str" -> IntLiteral(v.s)
    [] OTHER -> Raise(Exc("TypeError", <<"int()", "argument">>))

\* _parse_int refusing the minimum itself (parsed <= minimum)
_parse_int_above(value, field, minimum) ==
  LET parsed == PyInt(value)
  IN IF Raised(parsed) THEN Raise(BadRequest(<<field, "must", "be", "an", "integer">>))
     ELSE IF minimum # None /\ parsed.v.n <= minimum.n
       THEN Raise(BadRequest(<<field, "must", "be", ">=", "minimum">>))
     ELSE parsed

_parse_int(value, field, minimum) ==
  LET parsed == PyInt(value)
  IN IF Raised(parsed) THEN Raise(BadRequest(<<field, "must", "be", "an", "integer">>))
     ELSE IF minimum # None /\ parsed.v.n < minimum.n
       THEN Raise(BadRequest(<<field, "must", "be", ">=", "minimum">>))
     ELSE parsed

\* float(str): surrounding whitespace, an optional sign, digits, an optional
\* fraction of one digit (the model keeps tenths)
FloatLiteral(cs) ==
  LET t == strip(cs)
      signed == t # <<>> /\ Head(t) \in {"+", "-"}
      ds == IF signed THEN Tail(t) ELSE t
      dot == IF \E i \in 1..Len(ds) : ds[i] = "."
               THEN CHOOSE i \in 1..Len(ds) : ds[i] = "." /\ \A j \in 1..(i - 1) : ds[j] # "."
               ELSE 0
      whole == IF dot = 0 THEN ds ELSE SubSeq(ds, 1, dot - 1)
      frac == IF dot = 0 THEN <<>> ELSE SubSeq(ds, dot + 1, Len(ds))
      tenths == 10 * DigitsValue(whole) + (IF frac = <<>> THEN 0 ELSE DigitVal[frac[1]])
  IN IF AllDigits(whole) /\ AllDigits(frac) /\ Len(frac) <= 1 /\ whole \o frac # <<>>
       THEN Ok(RealV(IF signed /\ Head(t) = "-" THEN 0 - tenths ELSE tenths))
       ELSE Raise(Exc("ValueError", <<"could", "not", "convert">>))

\* float(value)
PyFloat(v) ==
  CASE v.k \in {"int", "bool"} -> Ok(RealV(10 * v.n))
    [] v.k = "real" -> Ok(v)
    [] v.k = "str" -> FloatLiteral(v.s)
    [] OTHER -> Raise(Exc("TypeError", <<"float()", "argument">>))

_parse_decimal(value, field) ==
  LET parsed == PyFloat(value)
  IN IF Raised(parsed) THEN Raise(BadRequest(<<field, "must", "be", "a", "number">>))
     ELSE parsed

IsLeap(y) == (y % 4 = 0 /\ y % 100 # 0) \/ y % 400 = 0
DaysInMonth(y, m) ==
  CASE m \in {4, 6, 9, 11} -> 30
    [] m = 2 -> IF IsLeap(y) THEN 29 ELSE 28
    [] OTHER -> 31

\* datetime.date(y, m, d)
MakeDate(y, m, d) ==
  IF y >= 1 /\ m \in 1..12 /\ d >= 1 /\ d <= DaysInMonth(y, m)
    THEN Ok(DateV(10000 * y + 100 * m + d))
    ELSE Raise(Exc("ValueError", <<"out", "of", "range">>))

\* date.fromisoformat: YYYY-MM-DD; from Python 3.11 on also YYYYMMDD
fromisoformat(cs) ==
  IF Len(cs) = 10 /\ cs[5] = "-" /\ cs[8] = "-"
     /\ AllDigits(SubSeq(cs, 1, 4) \o SubSeq(cs, 6, 7) \o SubSeq(cs, 9, 10))
    THEN MakeDate(DigitsValue(SubSeq(cs, 1, 4)), DigitsValue(SubSeq(cs, 6, 7)),
                  DigitsValue(SubSeq(cs, 9, 10)))
  ELSE IF python311 /\ Len(cs) = 8 /\ AllDigits(cs)
    THEN MakeDate(DigitsValue(SubSeq(cs, 1, 4)), DigitsValue(SubSeq(cs, 5, 6)),
                  DigitsValue(SubSeq(cs, 7, 8)))
  ELSE Raise(Exc("ValueError", <<"Invalid", "isoformat", "string">>))

_parse_date(value, field) ==
  IF ~Truthy(value) \/ value.k # "str"
    THEN Raise(BadRequest(<<field, "must", "be", "a", "date", "string", "(YYYY-MM-DD)">>))
  ELSE IF Raised(fromisoformat(value.s))
    THEN Raise(BadRequest(<<field, "must", "be", "a", "date", "string", "(YYYY-MM-DD)">>))
  ELSE fromisoformat(value.s)

\* str(date): YYYY-MM-DD
DateStr(d) ==
  StrV(PadDigits(d.n \div 10000, 4) \o <<"-">> \o PadDigits((d.n \div 100) % 100, 2)
      \o <<"-">> \o PadDigits(d.n % 100, 2))

\* [^@\s]
EmailChar(c) == c # "@" /\ c \notin Whitespace

\* ^[^@\s]+@[^@\s]+\.[^@\s]+ matching all of cs
EmailBody(cs) ==
  \E i, j \in 1..Len(cs) :
    /\ 1 < i /\ i + 1 < j /\ j < Len(cs)
    /\ cs[i] = "@" /\ cs[j] = "."
    /\ \A p \in 1..Len(cs) : p # i => EmailChar(cs[p])

\* _EMAIL_RE.match: $ also matches before one trailing newline
_EMAIL_RE(cs) ==
  \/ EmailBody(cs)
  \/ cs # <<>> /\ cs[Len(cs)] = "\n" /\ EmailBody(SubSeq(cs, 1, Len(cs) - 1))

_validate_email(email) ==
  IF email.k # "str" \/ ~_EMAIL_RE(email.s)
    THEN Raise(BadRequest(<<"email", "must", "be", "a", "valid", "email", "address">>))
    ELSE Ok(email)

-----------------------------------------------------------------------------
(* Response encoder *)

\* the characters of a word
Chars(w) ==
  CASE w = "json" -> <<"j", "s", "o", "n">>
    [] w = "xml" -> <<"x", "m", "l">>
    [] w = "csv" -> <<"c", "s", "v">>
    [] w = "XML" -> <<"X", "M", "L">>
    [] w = " xml" -> <<" ", "x", "m", "l">>
    [] w = "A" -> <<"A">>
    [] w = "B" -> <<"B">>
    [] w = " A " -> <<" ", "A", " ">>
    [] w = " " -> <<" ">>
    [] w = "" -> <<>>

\* request.args.get("format") is r.fmt: None, or the string given
_get_format(r) ==
  LET fmt == lower(strip(IF Truthy(r.fmt) THEN r.fmt.s ELSE Chars("json")))
  IN IF fmt \notin {Chars("json"), Chars("xml")}
       THEN Raise(BadRequest(<<"format", "must", "be", "'json'", "or", "'xml'">>))
       ELSE Ok(StrV(fmt))

NoLocation == [path |-> "", id |-> 0, query |-> None]

\* a flask Response: _to_xml puts the payload under the root element
Response(status, mimetype, root, payload) ==
  [status |-> status, mimetype |-> mimetype, root |-> root, payload |-> payload,
   location |-> NoLocation]

api_response(r, payload, status, root) ==
  LET fmt == _get_format(r)
  IN IF Raised(fmt) THEN Raise(fmt.exc)
     ELSE IF fmt.v = StrV(Chars("xml"))
       THEN Ok(Response(status, "application/xml", root, payload))
     ELSE Ok(Response(status, "application/json", "", payload))

\* an error reply that is JSON whatever format the request names
error_response_json(r, message, status) ==
  Ok(Response(status, "application/json", "", [error |-> StrV(message), status |-> IntV(status)]))

\* message: the words of the error message
error_response(r, message, status) ==
  api_response(r, [error |-> StrV(message), status |-> IntV(status)], status, "error")

_format_suffix(r) == IF Truthy(r.fmt) THEN r.fmt ELSE None

-----------------------------------------------------------------------------
(* Token service and auth gate *)

\* Config: the signing secret and the login credentials
JWT_SECRET_KEY == "your_jwt_secret_key"
API_USERNAME == StrV(<<"admin">>)
API_PASSWORD == StrV(<<"password">>)

\* the clock in whole seconds: int(now.timestamp())
Timestamp(t) == t \div TicksPerSec

\* _generate_token with the expiry rounded up to the next whole second
_generate_token_rounded_up(username, secret, expires_minutes) ==
  [wellformed |-> TRUE, alg |-> "HS256", sub |-> username, iat |-> Timestamp(now),
   exp |-> (now + TicksPerSec - 1) \div TicksPerSec + expires_minutes * 60, key |-> secret]

\* jwt.encode(payload, secret, "HS256"): the claims and the key that signed them
_generate_token(username, secret, expires_minutes) ==
  [wellformed |-> TRUE, alg |-> "HS256", sub |-> username, iat |-> Timestamp(now),
   exp |-> Timestamp(now) + expires_minutes * 60, key |-> secret]

\* jwt.decode(token, secret, algorithms=["HS256"])
jwt_decode(token, secret) ==
  IF ~token.wellformed THEN Raise(Exc("InvalidTokenError", <<"Not", "enough", "segments">>))
  ELSE IF token.alg # "HS256"
    THEN Raise(Exc("InvalidTokenError", <<"The", "specified", "alg", "value", "is", "not", "allowed">>))
  ELSE IF token.key # secret
    THEN Raise(Exc("InvalidTokenError", <<"Signature", "verification", "failed">>))
  ELSE IF token.iat * TicksPerSec > now
    THEN Raise(Exc("InvalidTokenError", <<"The", "token", "is", "not", "yet", "valid", "(iat)">>))
  ELSE IF token.exp * TicksPerSec <= now
    THEN Raise(Exc("ExpiredSignatureError", <<"Signature", "has", "expired">>))
  ELSE Ok(None)

\* the state a handler works on and leaves
Store(d, a, q) == [db |-> d, autoinc |-> a, sql |-> q]

\* what a view returns: its response (or the exception it raised) and the store
Result(response, S) == [resp |-> response, store |-> S]

\* require_jwt looking at the header once the view has run: a refusal keeps
\* what the view did to the store
require_jwt_after_view(r, S, fn) ==
  IF ~(r.auth.present /\ r.auth.scheme = "Bearer")
    THEN Result(error_response(r, <<"Missing", "or", "invalid", "Authorization", "header">>, 401),
                fn.store)
  ELSE LET decoded == jwt_decode(r.auth.token, JWT_SECRET_KEY)
       IN IF decoded.exc.type = "ExpiredSignatureError"
            THEN Result(error_response(r, <<"Token", "expired">>, 401), fn.store)
          ELSE IF decoded.exc.type = "InvalidTokenError"
            THEN Result(error_response(r, <<"Invalid", "token">>, 401), fn.store)
          ELSE fn

\* r.auth is the Authorization header: whether it is present, its text up to
\* the first space, and what follows
require_jwt(r, S, fn) ==
  IF ~(r.auth.present /\ r.auth.scheme = "Bearer")
    THEN Result(error_response(r, <<"Missing", "or", "invalid", "Authorization", "header">>, 401), S)
  ELSE LET decoded == jwt_decode(r.auth.token, JWT_SECRET_KEY)
       IN IF decoded.exc.type = "ExpiredSignatureError"
            THEN Result(error_response(r, <<"Token", "expired">>, 401), S)
          ELSE IF decoded.exc.type = "InvalidTokenError"
            THEN Result(error_response(r, <<"Invalid", "token">>, 401), S)
          ELSE fn

\* request.get_json(silent=True) or {}: r.body is the parsed JSON body: none
\* (absent or unparsable), a dict with its keys, or a list of len elements
EmptyDict == [json |-> "dict", keys |-> [x \in {} |-> None], len |-> 0]
get_json(r) ==
  IF r.body.json = "dict" THEN r.body
  ELSE IF r.body.json = "list" /\ r.body.len > 0 THEN r.body
  ELSE EmptyDict

AttributeError == Exc("AttributeError", <<"object", "has", "no", "attribute">>)

\* body.get(key)
BodyGet(body, key) == IF key \in DOMAIN body.keys THEN body.keys[key] ELSE None

\* (body.get(key) or "").strip()
StripField(body, key) ==
  LET value == BodyGet(body, key)
  IN IF ~Truthy(value) THEN Ok(StrV(<<>>))
     ELSE IF value.k # "str" THEN Raise(AttributeError)
     ELSE Ok(StrV(strip(value.s)))

-----------------------------------------------------------------------------
(* Storage: the MySQL tables behind flask_mysqldb *)

Tables == {"categories", "regions", "customers", "products", "sales_fact"}
AutoTables == {"categories", "regions", "products"}

Contains(msg, words) ==
  \E i \in 1..Len(msg) :
    i + Len(words) - 1 <= Len(msg) /\ SubSeq(msg, i, i + Len(words) - 1) = words

OperationalError == Exc("OperationalError", <<"(2006,", "'MySQL", "server", "has", "gone", "away')">>)
IntegrityError ==
  Exc("IntegrityError", <<"(1062,", "Duplicate", "entry", "for", "key", "'PRIMARY')">>)

\* what cur.execute leaves: the exception it raised, the rows fetched, rowcount,
\* lastrowid and the store
Executed(exc, rows, rowcount, lastrowid, S) ==
  [exc |-> exc, rows |-> rows, rowcount |-> rowcount, lastrowid |-> lastrowid, store |-> S]

Log(S, stmt) == [S EXCEPT !.sql = Append(@, stmt)]

\* the keys of a table in ascending order
RECURSIVE SortedKeys(_)
SortedKeys(keys) ==
  IF keys = {} THEN <<>>
  ELSE LET least == CHOOSE k \in keys : \A other \in keys : k <= other
       IN <<least>> \o SortedKeys(keys \ {least})

\* an INSERT that replaces the row its key already has (REPLACE INTO)
SqlInsert_replace(r, S, table, pk, row) ==
  IF r.fault THEN Executed(OperationalError, <<>>, 0, 0, S)
  ELSE Executed(NoExc, <<>>, 1, pk,
         Log(Log([S EXCEPT !.db[table] = (pk :> row) @@ @], "INSERT"), "COMMIT"))

\* INSERT INTO table (pk, ...) VALUES (...), then conn.commit()
SqlInsert(r, S, table, pk, row) ==
  IF r.fault THEN Executed(OperationalError, <<>>, 0, 0, S)
  ELSE IF pk \in DOMAIN S.db[table]
    THEN Executed(IntegrityError, <<>>, 0, 0, Log(S, "INSERT"))
  ELSE Executed(NoExc, <<>>, 1, pk,
         Log(Log([S EXCEPT !.db[table] = (pk :> row) @@ @], "INSERT"), "COMMIT"))

\* INSERT INTO table (...) VALUES (...) of a table whose key is AUTO_INCREMENT
SqlInsertAuto(r, S, table, idcol, row) ==
  LET pk == S.autoinc[table]
      done == SqlInsert(r, [S EXCEPT !.autoinc[table] = pk + 1], table, pk,
                        (idcol :> IntV(pk)) @@ row)
  IN IF done.exc = NoExc THEN done ELSE [done EXCEPT !.store.autoinc = S.autoinc]

\* SELECT ... FROM table WHERE pk=%s
SqlSelectOne(r, S, table, pk) ==
  IF r.fault THEN Executed(OperationalError, <<>>, 0, 0, S)
  ELSE Executed(NoExc, IF pk \in DOMAIN S.db[table] THEN <<S.db[table][pk]>> ELSE <<>>,
                IF pk \in DOMAIN S.db[table] THEN 1 ELSE 0, 0, Log(S, "SELECT"))

\* SELECT ... FROM table ORDER BY pk
SqlSelectAll(r, S, table) ==
  IF r.fault THEN Executed(OperationalError, <<>>, 0, 0, S)
  ELSE LET keys == SortedKeys(DOMAIN S.db[table])
       IN Executed(NoExc, [i \in 1..Len(keys) |-> S.db[table][keys[i]]], Len(keys), 0,
                   Log(S, "SELECT"))

\* an UPDATE that inserts the row when its key has none (an upsert)
SqlUpdate_upsert(r, S, table, pk, values) ==
  IF r.fault THEN Executed(OperationalError, <<>>, 0, 0, S)
  ELSE Executed(NoExc, <<>>, 1, 0,
         Log(Log([S EXCEPT !.db[table] =
                    (pk :> (IF pk \in DOMAIN @ THEN values @@ @[pk] ELSE values)) @@ @],
                 "UPDATE"), "COMMIT"))

\* UPDATE table SET ... WHERE pk=%s, then conn.commit(); rowcount is the
\* number of rows the statement changed
SqlUpdate(r, S, table, pk, values) ==
  IF r.fault THEN Executed(OperationalError, <<>>, 0, 0, S)
  ELSE IF pk \notin DOMAIN S.db[table]
    THEN Executed(NoExc, <<>>, 0, 0, Log(Log(S, "UPDATE"), "COMMIT"))
  ELSE LET new == values @@ S.db[table][pk]
       IN Executed(NoExc, <<>>, IF new = S.db[table][pk] THEN 0 ELSE 1, 0,
                   Log(Log([S EXCEPT !.db[table][pk] = new], "UPDATE"), "COMMIT"))

\* a DELETE whose rowcount is taken to be 1 whether or not a row matched
SqlDelete_rowcount_1(r, S, table, pk) ==
  IF r.fault THEN Executed(OperationalError, <<>>, 0, 0, S)
  ELSE Executed(NoExc, <<>>, 1, 0,
         Log(Log([S EXCEPT !.db[table] = [k \in DOMAIN @ \ {pk} |-> @[k]]], "DELETE"), "COMMIT"))

\* a DELETE without its WHERE clause: every row of the table goes
SqlDelete_no_where(r, S, table, pk) ==
  IF r.fault THEN Executed(OperationalError, <<>>, 0, 0, S)
  ELSE Executed(NoExc, <<>>, Cardinality(DOMAIN S.db[table]), 0,
         Log(Log([S EXCEPT !.db[table] = [k \in {} |-> @[k]]], "DELETE"), "COMMIT"))

\* DELETE FROM table WHERE pk=%s, then conn.commit()
SqlDelete(r, S, table, pk) ==
  IF r.fault THEN Executed(OperationalError, <<>>, 0, 0, S)
  ELSE IF pk \notin DOMAIN S.db[table]
    THEN Executed(NoExc, <<>>, 0, 0, Log(Log(S, "DELETE"), "COMMIT"))
  ELSE Executed(NoExc, <<>>, 1, 0,
         Log(Log([S EXCEPT !.db[table] = [k \in DOMAIN @ \ {pk} |-> @[k]]], "DELETE"), "COMMIT"))

\* _handle_db_error looking for the words of another message
_handle_db_error_other_words(r, exc) ==
  IF Contains(exc.msg, <<"Duplicate", "key">>)
    THEN error_response(r, <<"Conflict", "(duplicate", "key)">>, 409)
    ELSE error_response(r, <<"Database", "error">>, 500)

_handle_db_error(r, exc) ==
  IF Contains(exc.msg, <<"Duplicate", "entry">>)
    THEN error_response(r, <<"Conflict", "(duplicate", "key)">>, 409)
    ELSE error_response(r, <<"Database", "error">>, 500)

\* the first exception raised by a sequence of calls made in order
RECURSIVE FirstRaised(_)
FirstRaised(calls) ==
  IF calls = <<>> THEN NoExc
  ELSE IF Raised(Head(calls)) THEN Head(calls).exc
  ELSE FirstRaised(Tail(calls))

Location(path, id, r) == [path |-> path, id |-> id, query |-> _format_suffix(r)]

\* the reply of a create, inside its try block: the 201 response with its
\* Location header, or what except Exception makes of a failure to build it
Created(r, payload, path, id) ==
  LET response == api_response(r, payload, 201, "response")
  IN IF Raised(response) THEN _handle_db_error(r, response.exc)
     ELSE Ok([response.v EXCEPT !.location = Location(path, id, r)])

\* a reply built inside a try block
Try(r, response) == IF Raised(response) THEN _handle_db_error(r, response.exc) ELSE response

\* a row whose dates are left as the driver returned them
DateLeftAsDate(row, col) == row

\* if isinstance(row.get(col), (dt.date, dt.datetime)): row[col] = str(row[col])
DateToStr(row, col) ==
  IF col \in DOMAIN row /\ row[col].k = "date" THEN [row EXCEPT ![col] = DateStr(@)] ELSE row

-----------------------------------------------------------------------------
(* What the try blocks of the handlers do once their statement has run *)

\* the rows fetched with their date column turned into a string
Dated(got, col) == [got EXCEPT !.rows = [i \in DOMAIN @ |-> DateToStr(@[i], col)]]

\* return api_response({"items": rows}), or except Exception
Listed(r, got) ==
  IF got.exc # NoExc THEN Result(_handle_db_error(r, got.exc), got.store)
  ELSE Result(Try(r, api_response(r, [items |-> got.rows], 200, "response")), got.store)

\* if not row: 404; return api_response(row), or except Exception
Selected(r, got, notfound) ==
  IF got.exc # NoExc THEN Result(_handle_db_error(r, got.exc), got.store)
  ELSE IF got.rows = <<>> THEN Result(Try(r, error_response(r, notfound, 404)), got.store)
  ELSE Result(Try(r, api_response(r, got.rows[1], 200, "response")), got.store)

\* the 201 reply with its Location header, or except Exception
Inserted(r, done, payload, path, id) ==
  IF done.exc # NoExc THEN Result(_handle_db_error(r, done.exc), done.store)
  ELSE Result(Created(r, payload, path, id), done.store)

\* the same where the key is cur.lastrowid
InsertedAuto(r, done, idcol, row, path) ==
  Inserted(r, done, (idcol :> IntV(done.lastrowid)) @@ row, path, done.lastrowid)

\* if cur.rowcount == 0: 404; return api_response(payload), or except Exception
Updated(r, done, notfound, payload) ==
  IF done.exc # NoExc THEN Result(_handle_db_error(r, done.exc), done.store)
  ELSE IF done.rowcount = 0 THEN Result(Try(r, error_response(r, notfound, 404)), done.store)
  ELSE Result(Try(r, api_response(r, payload, 200, "response")), done.store)

\* if cur.rowcount == 0: 404; return api_response({"deleted": True, idcol: id})
Deleted(r, done, notfound, idcol) ==
  Updated(r, done, notfound, ("deleted" :> BoolV(TRUE)) @@ (idcol :> IntV(r.id)))

-----------------------------------------------------------------------------
(* Categories and regions: a name column and an AUTO_INCREMENT key *)

\* create_category, create_region
CreateNamed(r, S, table, idcol, namecol, path) ==
  LET name == StripField(get_json(r), namecol)
  IN IF get_json(r).json # "dict" THEN Result(Raise(AttributeError), S)
     ELSE IF Raised(name) THEN Result(Raise(name.exc), S)
     ELSE IF name.v.s = <<>> THEN Result(error_response(r, <<namecol, "is", "required">>, 400), S)
     ELSE InsertedAuto(r, SqlInsertAuto(r, S, table, idcol, (namecol :> name.v)), idcol,
                       (namecol :> name.v), path)

\* update_category, update_region
UpdateNamed(r, S, table, idcol, namecol, notfound) ==
  LET name == StripField(get_json(r), namecol)
  IN IF get_json(r).json # "dict" THEN Result(Raise(AttributeError), S)
     ELSE IF Raised(name) THEN Result(Raise(name.exc), S)
     ELSE IF name.v.s = <<>> THEN Result(error_response(r, <<namecol, "is", "required">>, 400), S)
     ELSE Updated(r, SqlUpdate(r, S, table, r.id, (namecol :> name.v)), notfound,
                  (idcol :> IntV(r.id)) @@ (namecol :> name.v))

list_categories(r, S) == Listed(r, SqlSelectAll(r, S, "categories"))
create_category(r, S) ==
  CreateNamed(r, S, "categories", "category_id", "category_name", "/api/categories")
get_category(r, S) ==
  Selected(r, SqlSelectOne(r, S, "categories", r.id), <<"Category", "not", "found">>)
update_category(r, S) ==
  UpdateNamed(r, S, "categories", "category_id", "category_name", <<"Category", "not", "found">>)
delete_category(r, S) ==
  Deleted(r, SqlDelete(r, S, "categories", r.id), <<"Category", "not", "found">>, "category_id")

list_regions(r, S) == Listed(r, SqlSelectAll(r, S, "regions"))
create_region(r, S) == CreateNamed(r, S, "regions", "region_id", "region_name", "/api/regions")
get_region(r, S) ==
  Selected(r, SqlSelectOne(r, S, "regions", r.id), <<"Region", "not", "found">>)
update_region(r, S) ==
  UpdateNamed(r, S, "regions", "region_id", "region_name", <<"Region", "not", "found">>)
delete_region(r, S) ==
  Deleted(r, SqlDelete(r, S, "regions", r.id), <<"Region", "not", "found">>, "region_id")

-----------------------------------------------------------------------------
(* Customers *)

list_customers(r, S) == Listed(r, Dated(SqlSelectAll(r, S, "customers"), "signup_date"))

\* create_customer from its if on: p holds what the calls before it returned
create_customer_checked(r, S, p) ==
  LET raised == FirstRaised(<<p.customer_id, p.first_name, p.last_name, p.email, p.signup_date>>)
  IN IF raised # NoExc THEN Result(Raise(raised), S)
     ELSE IF p.first_name.v.s = <<>> \/ p.last_name.v.s = <<>>
       THEN Result(error_response(r, <<"first_name", "and", "last_name", "are", "required">>, 400), S)
     ELSE Inserted(r, SqlInsert(r, S, "customers", p.customer_id.v.n,
                                [customer_id |-> p.customer_id.v, first_name |-> p.first_name.v,
                                 last_name |-> p.last_name.v, email |-> p.email.v,
                                 signup_date |-> p.signup_date.v]),
                   [customer_id |-> p.customer_id.v, first_name |-> p.first_name.v,
                    last_name |-> p.last_name.v, email |-> p.email.v,
                    signup_date |-> DateStr(p.signup_date.v)],
                   "/api/customers", p.customer_id.v.n)

create_customer(r, S) ==
  IF get_json(r).json # "dict" THEN Result(Raise(AttributeError), S)
  ELSE create_customer_checked(r, S,
         [customer_id |-> _parse_int(BodyGet(get_json(r), "customer_id"), "customer_id", IntV(1)),
          first_name |-> StripField(get_json(r), "first_name"),
          last_name |-> StripField(get_json(r), "last_name"),
          email |-> _validate_email(BodyGet(get_json(r), "email")),
          signup_date |-> _parse_date(BodyGet(get_json(r), "signup_date"), "signup_date")])

get_customer(r, S) ==
  Selected(r, Dated(SqlSelectOne(r, S, "customers", r.id), "signup_date"),
           <<"Customer", "not", "found">>)

\* update_customer from its first if on
update_customer_checked(r, S, p) ==
  LET raised == FirstRaised(<<p.first_name, p.last_name>>)
      invalid == FirstRaised(<<p.email, p.signup_date>>)
  IN IF raised # NoExc THEN Result(Raise(raised), S)
     ELSE IF p.first_name.v.s = <<>> \/ p.last_name.v.s = <<>>
       THEN Result(error_response(r, <<"first_name", "and", "last_name", "are", "required">>, 400), S)
     ELSE IF BodyGet(get_json(r), "email") = None \/ BodyGet(get_json(r), "signup_date") = None
       THEN Result(error_response(r, <<"email", "and", "signup_date", "are", "required">>, 400), S)
     ELSE IF invalid # NoExc THEN Result(Raise(invalid), S)
     ELSE Updated(r, SqlUpdate(r, S, "customers", r.id,
                               [first_name |-> p.first_name.v, last_name |-> p.last_name.v,
                                email |-> p.email.v, signup_date |-> p.signup_date.v]),
                  <<"Customer", "not", "found">>,
                  [customer_id |-> IntV(r.id), first_name |-> p.first_name.v,
                   last_name |-> p.last_name.v, email |-> p.email.v,
                   signup_date |-> DateStr(p.signup_date.v)])

update_customer(r, S) ==
  IF get_json(r).json # "dict" THEN Result(Raise(AttributeError), S)
  ELSE update_customer_checked(r, S,
         [first_name |-> StripField(get_json(r), "first_name"),
          last_name |-> StripField(get_json(r), "last_name"),
          email |-> _validate_email(BodyGet(get_json(r), "email")),
          signup_date |-> _parse_date(BodyGet(get_json(r), "signup_date"), "signup_date")])

delete_customer(r, S) ==
  Deleted(r, SqlDelete(r, S, "customers", r.id), <<"Customer", "not", "found">>, "customer_id")

-----------------------------------------------------------------------------
(* Products *)

\* SELECT p.product_id, p.product_name, p.category_id, c.category_name
\* FROM products p JOIN categories c ON c.category_id = p.category_id
\* [WHERE p.product_id=%s] ORDER BY p.product_id, over the products in keys
SqlSelectProducts(r, S, keys) ==
  IF r.fault THEN Executed(OperationalError, <<>>, 0, 0, S)
  ELSE LET order == SortedKeys({k \in keys \cap DOMAIN S.db.products :
                                 S.db.products[k].category_id.n \in DOMAIN S.db.categories})
       IN Executed(NoExc,
                   [i \in 1..Len(order) |->
                      S.db.products[order[i]] @@
                      [category_name |->
                         S.db.categories[S.db.products[order[i]].category_id.n].category_name]],
                   Len(order), 0, Log(S, "SELECT"))

list_products(r, S) == Listed(r, SqlSelectProducts(r, S, DOMAIN S.db.products))

\* create_product from its if on
create_product_checked(r, S, p) ==
  LET raised == FirstRaised(<<p.product_name, p.category_id>>)
  IN IF raised # NoExc THEN Result(Raise(raised), S)
     ELSE IF p.product_name.v.s = <<>>
       THEN Result(error_response(r, <<"product_name", "is", "required">>, 400), S)
     ELSE InsertedAuto(r, SqlInsertAuto(r, S, "products", "product_id",
                                        [product_name |-> p.product_name.v,
                                         category_id |-> p.category_id.v]),
                       "product_id",
                       [product_name |-> p.product_name.v, category_id |-> p.category_id.v],
                       "/api/products")

create_product(r, S) ==
  IF get_json(r).json # "dict" THEN Result(Raise(AttributeError), S)
  ELSE create_product_checked(r, S,
         [product_name |-> StripField(get_json(r), "product_name"),
          category_id |-> _parse_int(BodyGet(get_json(r), "category_id"), "category_id", IntV(1))])

get_product(r, S) ==
  Selected(r, SqlSelectProducts(r, S, {r.id}), <<"Product", "not", "found">>)

\* update_product from its if on
update_product_checked(r, S, p) ==
  LET raised == FirstRaised(<<p.product_name, p.category_id>>)
  IN IF raised # NoExc THEN Result(Raise(raised), S)
     ELSE IF p.product_name.v.s = <<>>
       THEN Result(error_response(r, <<"product_name", "is", "required">>, 400), S)
     ELSE Updated(r, SqlUpdate(r, S, "products", r.id,
                               [product_name |-> p.product_name.v,
                                category_id |-> p.category_id.v]),
                  <<"Product", "not", "found">>,
                  [product_id |-> IntV(r.id), product_name |-> p.product_name.v,
                   category_id |-> p.category_id.v])

update_product(r, S) ==
  IF get_json(r).json # "dict" THEN Result(Raise(AttributeError), S)
  ELSE update_product_checked(r, S,
         [product_name |-> StripField(get_json(r), "product_name"),
          category_id |-> _parse_int(BodyGet(get_json(r), "category_id"), "category_id", IntV(1))])

delete_product(r, S) ==
  Deleted(r, SqlDelete(r, S, "products", r.id), <<"Product", "not", "found">>, "product_id")

-----------------------------------------------------------------------------
(* Sales *)

list_sales(r, S) == Listed(r, Dated(SqlSelectAll(r, S, "sales_fact"), "sale_date"))

\* the price as the DECIMAL column keeps it
ToDecimal(price) == DecV(price.n)

\* create_sale from its try block on
create_sale_checked(r, S, p) ==
  LET raised == FirstRaised(<<p.sale_id, p.product_id, p.sale_date, p.quantity, p.price,
                              p.customer_id, p.region_id>>)
  IN IF raised # NoExc THEN Result(Raise(raised), S)
     ELSE Inserted(r, SqlInsert(r, S, "sales_fact", p.sale_id.v.n,
                                [sale_id |-> p.sale_id.v, product_id |-> p.product_id.v,
                                 sale_date |-> p.sale_date.v, quantity |-> p.quantity.v,
                                 price |-> ToDecimal(p.price.v), customer_id |-> p.customer_id.v,
                                 region_id |-> p.region_id.v]),
                   [sale_id |-> p.sale_id.v, product_id |-> p.product_id.v,
                    sale_date |-> DateStr(p.sale_date.v), quantity |-> p.quantity.v,
                    price |-> p.price.v, customer_id |-> p.customer_id.v,
                    region_id |-> p.region_id.v],
                   "/api/sales", p.sale_id.v.n)

create_sale(r, S) ==
  IF get_json(r).json # "dict" THEN Result(Raise(AttributeError), S)
  ELSE create_sale_checked(r, S,
         [sale_id |-> _parse_int(BodyGet(get_json(r), "sale_id"), "sale_id", IntV(1)),
          product_id |-> _parse_int(BodyGet(get_json(r), "product_id"), "product_id", IntV(1)),
          sale_date |-> _parse_date(BodyGet(get_json(r), "sale_date"), "sale_date"),
          quantity |-> _parse_int(BodyGet(get_json(r), "quantity"), "quantity", IntV(1)),
          price |-> _parse_decimal(BodyGet(get_json(r), "price"), "price"),
          customer_id |-> _parse_int(BodyGet(get_json(r), "customer_id"), "customer_id", IntV(1)),
          region_id |-> _parse_int(BodyGet(get_json(r), "region_id"), "region_id", IntV(1))])

get_sale(r, S) ==
  Selected(r, Dated(SqlSelectOne(r, S, "sales_fact", r.id), "sale_date"),
           <<"Sale", "not", "found">>)

\* update_sale from its try block on
update_sale_checked(r, S, p) ==
  LET raised == FirstRaised(<<p.product_id, p.sale_date, p.quantity, p.price, p.customer_id,
                              p.region_id>>)
  IN IF raised # NoExc THEN Result(Raise(raised), S)
     ELSE Updated(r, SqlUpdate(r, S, "sales_fact", r.id,
                               [product_id |-> p.product_id.v, sale_date |-> p.sale_date.v,
                                quantity |-> p.quantity.v, price |-> ToDecimal(p.price.v),
                                customer_id |-> p.customer_id.v, region_id |-> p.region_id.v]),
                  <<"Sale", "not", "found">>,
                  [sale_id |-> IntV(r.id), product_id |-> p.product_id.v,
                   sale_date |-> DateStr(p.sale_date.v), quantity |-> p.quantity.v,
                   price |-> p.price.v, customer_id |-> p.customer_id.v,
                   region_id |-> p.region_id.v])

update_sale(r, S) ==
  IF get_json(r).json # "dict" THEN Result(Raise(AttributeError), S)
  ELSE update_sale_checked(r, S,
         [product_id |-> _parse_int(BodyGet(get_json(r), "product_id"), "product_id", IntV(1)),
          sale_date |-> _parse_date(BodyGet(get_json(r), "sale_date"), "sale_date"),
          quantity |-> _parse_int(BodyGet(get_json(r), "quantity"), "quantity", IntV(1)),
          price |-> _parse_decimal(BodyGet(get_json(r), "price"), "price"),
          customer_id |-> _parse_int(BodyGet(get_json(r), "customer_id"), "customer_id", IntV(1)),
          region_id |-> _parse_int(BodyGet(get_json(r), "region_id"), "region_id", IntV(1))])

delete_sale(r, S) ==
  Deleted(r, SqlDelete(r, S, "sales_fact", r.id), <<"Sale", "not", "found">>, "sale_id")

-----------------------------------------------------------------------------
(* Search over the sales_denorm view *)

\* the view: each sale joined with its product, the product's category, its
\* region and its customer
sales_denorm(d) ==
  [k \in {s \in DOMAIN d.sales_fact :
            /\ d.sales_fact[s].product_id.n \in DOMAIN d.products
            /\ d.products[d.sales_fact[s].product_id.n].category_id.n \in DOMAIN d.categories
            /\ d.sales_fact[s].region_id.n \in DOMAIN d.regions
            /\ d.sales_fact[s].customer_id.n \in DOMAIN d.customers} |->
     [sale_id |-> d.sales_fact[k].sale_id, sale_date |-> d.sales_fact[k].sale_date,
      quantity |-> d.sales_fact[k].quantity, price |-> d.sales_fact[k].price,
      product_name |-> d.products[d.sales_fact[k].product_id.n].product_name,
      product_category |->
        d.categories[d.products[d.sales_fact[k].product_id.n].category_id.n].category_name,
      region |-> d.regions[d.sales_fact[k].region_id.n].region_name,
      customer_id |-> d.sales_fact[k].customer_id,
      first_name |-> d.customers[d.sales_fact[k].customer_id.n].first_name,
      last_name |-> d.customers[d.sales_fact[k].customer_id.n].last_name,
      email |-> d.customers[d.sales_fact[k].customer_id.n].email,
      signup_date |-> d.customers[d.sales_fact[k].customer_id.n].signup_date]]

\* column LIKE '%text%' under a case-insensitive collation
Like(column, text) == Contains(lower(column.s), lower(text.s))

\* request.args.get(name)
ArgsGet(r, name) == IF name \in DOMAIN r.args THEN r.args[name] ELSE None

\* a WHERE clause whose conditions are joined by OR
Where_any(r, p, row) ==
  \/ \A name \in DOMAIN r.args : ~Truthy(r.args[name])
  \/ Truthy(ArgsGet(r, "product_name")) /\ Like(row.product_name, ArgsGet(r, "product_name"))
  \/ Truthy(ArgsGet(r, "category_name")) /\ Like(row.product_category, ArgsGet(r, "category_name"))
  \/ Truthy(ArgsGet(r, "region_name")) /\ Like(row.region, ArgsGet(r, "region_name"))
  \/ Truthy(ArgsGet(r, "customer_id")) /\ row.customer_id.n = p.customer_id.v.n
  \/ Truthy(ArgsGet(r, "date_from")) /\ row.sale_date.n >= p.date_from.v.n
  \/ Truthy(ArgsGet(r, "date_to")) /\ row.sale_date.n <= p.date_to.v.n

\* the WHERE clause search_sales builds: p holds the parameters it parsed
Where(r, p, row) ==
  /\ Truthy(ArgsGet(r, "product_name")) => Like(row.product_name, ArgsGet(r, "product_name"))
  /\ Truthy(ArgsGet(r, "category_name")) => Like(row.product_category, ArgsGet(r, "category_name"))
  /\ Truthy(ArgsGet(r, "region_name")) => Like(row.region, ArgsGet(r, "region_name"))
  /\ Truthy(ArgsGet(r, "customer_id")) => row.customer_id.n = p.customer_id.v.n
  /\ Truthy(ArgsGet(r, "date_from")) => row.sale_date.n >= p.date_from.v.n
  /\ Truthy(ArgsGet(r, "date_to")) => row.sale_date.n <= p.date_to.v.n

\* SELECT * FROM sales_denorm [WHERE ...] ORDER BY sale_id
SqlSelectView(r, S, p, view) ==
  IF r.fault THEN Executed(OperationalError, <<>>, 0, 0, S)
  ELSE LET order == SortedKeys({k \in DOMAIN view : Where(r, p, view[k])})
       IN Executed(NoExc, [i \in 1..Len(order) |-> view[order[i]]], Len(order), 0,
                   Log(S, "SELECT"))

BothDatesToStr(row) == DateToStr(DateToStr(row, "sale_date"), "signup_date")

\* the try block of search_sales
Searched(r, got) ==
  IF got.exc # NoExc THEN Result(_handle_db_error(r, got.exc), got.store)
  ELSE Result(Try(r, api_response(r, [items |-> [i \in 1..Len(got.rows) |->
                                                   BothDatesToStr(got.rows[i])],
                                      count |-> IntV(Len(got.rows))], 200, "response")),
              got.store)

\* search_sales from its sql = on
search_sales_checked(r, S, p) ==
  LET raised == FirstRaised(<<p.customer_id, p.date_from, p.date_to>>)
  IN IF raised # NoExc THEN Result(Raise(raised), S)
     ELSE Searched(r, SqlSelectView(r, S, p, sales_denorm(S.db)))

search_sales(r, S) ==
  search_sales_checked(r, S,
    [customer_id |-> IF Truthy(ArgsGet(r, "customer_id"))
                       THEN _parse_int(ArgsGet(r, "customer_id"), "customer_id", IntV(1))
                       ELSE Ok(None),
     date_from |-> IF Truthy(ArgsGet(r, "date_from"))
                     THEN _parse_date(ArgsGet(r, "date_from"), "date_from") ELSE Ok(None),
     date_to |-> IF Truthy(ArgsGet(r, "date_to"))
                   THEN _parse_date(ArgsGet(r, "date_to"), "date_to") ELSE Ok(None)])

-----------------------------------------------------------------------------
(* Health and login *)

health(r, S) == Result(api_response(r, [status |-> StrV(<<"ok">>)], 200, "response"), S)

login(r, S) ==
  IF get_json(r).json # "dict" THEN Result(Raise(AttributeError), S)
  ELSE IF BodyGet(get_json(r), "username") # API_USERNAME
          \/ BodyGet(get_json(r), "password") # API_PASSWORD
    THEN Result(error_response(r, <<"Invalid", "credentials">>, 401), S)
  ELSE Result(api_response(r,
                [access_token |-> _generate_token(BodyGet(get_json(r), "username").s,
                                                  JWT_SECRET_KEY, 60),
                 token_type |-> StrV(<<"Bearer">>), expires_in |-> IntV(3600)],
                200, "response"), S)

-----------------------------------------------------------------------------
(* Flask: routing, the error handlers, and the WSGI server around them *)

ProtectedRoutes ==
  {"list_categories", "create_category", "get_category", "update_category", "delete_category",
   "list_regions", "create_region", "get_region", "update_region", "delete_region",
   "list_customers", "create_customer", "get_customer", "update_customer", "delete_customer",
   "list_products", "create_product", "get_product", "update_product", "delete_product",
   "list_sales", "create_sale", "get_sale", "update_sale", "delete_sale", "search_sales"}

\* a URL no rule matches
unrouted(r, S) == Result(Raise(Exc("NotFound", <<"404", "Not", "Found">>)), S)

\* the view function of the matched rule, behind @require_jwt where it has it:
\* fn is what the view returns for r
dispatch_request(r, S, fn) ==
  IF r.route \in ProtectedRoutes THEN require_jwt(r, S, fn) ELSE fn

_bad_request(r, err) == error_response(r, SubSeq(err.msg, 4, Len(err.msg)), 400)
_not_found(r, err) == error_response(r, <<"Not", "found">>, 404)
_unhandled(r, err) == error_response(r, <<"Internal", "server", "error">>, 500)

\* app.handle_user_exception: the handler registered for the exception's class
handle_user_exception(r, e) ==
  CASE e.type = "BadRequest" -> _bad_request(r, e)
    [] e.type = "NotFound" -> _not_found(r, e)
    [] OTHER -> _unhandled(r, e)

\* app.full_dispatch_request: rv is what dispatch_request returned or raised
full_dispatch_request(r, rv) ==
  IF Raised(rv.resp) THEN Result(handle_user_exception(r, rv.resp.exc), rv.store) ELSE rv

\* app.handle_exception, for what the error handlers themselves raise
handle_exception(r, rv) ==
  IF Raised(rv.resp) THEN Result(_unhandled(r, rv.resp.exc), rv.store) ELSE rv

\* what the WSGI server sends when the application raises: its own 500 page
ServerError(e) == Response(500, "text/html", "", [traceback |-> StrV(<<e.type>>)])

run_wsgi(rv) ==
  IF Raised(rv.resp) THEN [resp |-> ServerError(rv.resp.exc), store |-> rv.store]
  ELSE [resp |-> rv.resp.v, store |-> rv.store]

\* app.wsgi_app under the server
wsgi_app(r, S, fn) ==
  run_wsgi(handle_exception(r, full_dispatch_request(r, dispatch_request(r, S, fn))))

-----------------------------------------------------------------------------
(* Requests *)

NoToken == [wellformed |-> FALSE, alg |-> "", sub |-> <<>>, iat |-> 0, exp |-> 0, key |-> ""]
NoHeader == [present |-> FALSE, scheme |-> "", token |-> NoToken]
Header(scheme, token) == [present |-> TRUE, scheme |-> scheme, token |-> token]
Bearer(token) == Header("Bearer", token)

\* the token login returns at clock t
TokenAt(t) ==
  [wellformed |-> TRUE, alg |-> "HS256", sub |-> <<"admin">>, iat |-> Timestamp(t),
   exp |-> Timestamp(t) + TokenTTL, key |-> JWT_SECRET_KEY]

NoArgs == [x \in {} |-> None]
NoBody == [json |-> "none", keys |-> [x \in {} |-> None], len |-> 0]
Dict(keys) == [json |-> "dict", keys |-> keys, len |-> 0]
ListBody == [json |-> "list", keys |-> [x \in {} |-> None], len |-> 1]

Request(route, id, auth, fmt, body, args, fault) ==
  [route |-> route, id |-> id, auth |-> auth, fmt |-> fmt, body |-> body, args |-> args,
   fault |-> fault]

NoRequest == Request("", 0, NoHeader, None, NoBody, NoArgs, FALSE)
NoResponse == Response(0, "", "", [x \in {} |-> None])

\* the response is sent: the rows and counters the handler left, the statements
\* it ran, and the token a successful login returned
Deliver(r, out) ==
  /\ \A t \in AutoTables : out.store.autoinc[t] <= MaxId + 1
  /\ writes + (IF out.store.db # db THEN 1 ELSE 0) <= MaxWrites
  /\ req' = r
  /\ resp' = out.resp
  /\ db' = out.store.db
  /\ autoinc' = out.store.autoinc
  /\ stmts' = out.store.sql
  /\ writes' = writes + (IF out.store.db # db THEN 1 ELSE 0)
  /\ issued' = IF "access_token" \in DOMAIN out.resp.payload
                 THEN issued \cup {[token |-> out.resp.payload.access_token, at |-> now]}
               ELSE issued
  /\ Cardinality(issued') <= MaxTokens
  /\ UNCHANGED <<now, python311, threads>>

\* the tables as the server finds them when a request arrives
Stored == Store(db, autoinc, <<>>)

\* the server handles request r, for which its view returns fn
Serve(r, fn) == Deliver(r, wsgi_app(r, Store(db, autoinc, <<>>), fn))

\* wsgi_app's finally: the response is sent and the request context popped
ctx_pop ==
  /\ req # NoRequest
  /\ req' = NoRequest
  /\ resp' = NoResponse
  /\ stmts' = <<>>
  /\ UNCHANGED <<db, autoinc, now, issued, python311, writes, threads>>

-----------------------------------------------------------------------------
(* The requests clients send *)

IsoDate(y, m, d) == StrV(PadDigits(y, 4) \o <<"-">> \o PadDigits(m, 2) \o <<"-">> \o PadDigits(d, 2))
SlashDate(y, m, d) == StrV(PadDigits(y, 4) \o <<"/">> \o PadDigits(m, 2) \o <<"/">> \o PadDigits(d, 2))
BasicDate(y, m, d) == StrV(PadDigits(y, 4) \o PadDigits(m, 2) \o PadDigits(d, 2))

Ids == {IntV(i) : i \in 1..MaxId}
BadIds == {IntV(0), IntV(0 - 1), None, StrV(<<"x">>)}
CoercedIds == {StrV(<<" ", "1">>), RealV(19)}
Names == {StrV(<<"A">>), StrV(<<"B">>)}
PaddedNames == {StrV(<<" ", "A", " ">>)}
BadNames == {StrV(<<>>), StrV(<<" ">>), None, IntV(5)}
Emails == {StrV(<<"a", "@", "b", ".", "c">>)}
BadEmails == {StrV(<<"a", "b", ".", "c">>), StrV(<<"a", "@", "b", "c">>), None}
Dates == {IsoDate(2023, 1, 1)}
BadDates == {SlashDate(2023, 1, 1), IsoDate(2023, 2, 30), None}
BasicDates == {BasicDate(2023, 1, 1)}
Quantities == {IntV(1), IntV(2)}
BadQuantities == {IntV(0), None}
Prices == {RealV(199)}
CoercedPrices == {StrV(<<"1", "9", ".", "9">>)}
BadPrices == {None, StrV(<<"x">>)}

\* base with one key given each of the values
Vary(base, key, values) == {[base EXCEPT ![key] = v] : v \in values}

NamedBase(namecol) == (namecol :> StrV(<<"A">>))
NamedBodies(namecol) ==
  {Dict(k) : k \in Vary(NamedBase(namecol), namecol, Names \cup PaddedNames \cup BadNames)}
    \cup {NoBody, ListBody}

CustomerBase ==
  [customer_id |-> IntV(1), first_name |-> StrV(<<"A">>), last_name |-> StrV(<<"A">>),
   email |-> StrV(<<"a", "@", "b", ".", "c">>), signup_date |-> IsoDate(2023, 1, 1)]
CustomerBodies ==
  {Dict(k) : k \in Vary(CustomerBase, "customer_id", Ids \cup BadIds \cup CoercedIds)
                   \cup Vary(CustomerBase, "first_name", Names \cup PaddedNames \cup BadNames)
                   \cup Vary(CustomerBase, "last_name", BadNames)
                   \cup Vary(CustomerBase, "email", Emails \cup BadEmails)
                   \cup Vary(CustomerBase, "signup_date", Dates \cup BadDates \cup BasicDates)
                   \cup {[CustomerBase EXCEPT !.customer_id = IntV(2), !.first_name = StrV(<<"B">>)]}}
    \cup {NoBody, ListBody}

ProductBase == [product_name |-> StrV(<<"A">>), category_id |-> IntV(1)]
ProductBodies ==
  {Dict(k) : k \in Vary(ProductBase, "product_name", Names \cup PaddedNames \cup BadNames)
                   \cup Vary(ProductBase, "category_id", Ids \cup BadIds \cup CoercedIds)}
    \cup {NoBody, ListBody}

SaleBase ==
  [sale_id |-> IntV(1), product_id |-> IntV(1), sale_date |-> IsoDate(2023, 1, 1),
   quantity |-> IntV(1), price |-> RealV(199), customer_id |-> IntV(1), region_id |-> IntV(1)]
SaleBodies ==
  {Dict(k) : k \in Vary(SaleBase, "sale_id", Ids \cup BadIds \cup CoercedIds)
                   \cup Vary(SaleBase, "product_id", Ids \cup BadIds)
                   \cup Vary(SaleBase, "sale_date", Dates \cup BadDates \cup BasicDates)
                   \cup Vary(SaleBase, "quantity", Quantities \cup BadQuantities)
                   \cup Vary(SaleBase, "price", Prices \cup CoercedPrices \cup BadPrices)
                   \cup Vary(SaleBase, "customer_id", BadIds)
                   \cup Vary(SaleBase, "region_id", BadIds)
                   \cup {[SaleBase EXCEPT !.sale_id = IntV(2), !.quantity = IntV(2)]}}
    \cup {NoBody, ListBody}

LoginBase == [username |-> API_USERNAME, password |-> API_PASSWORD]
LoginBodies ==
  {Dict(k) : k \in Vary(LoginBase, "username", {API_USERNAME, StrV(<<"root">>), None})
                   \cup Vary(LoginBase, "password", {StrV(<<"guess">>), None, IntV(1)})}
    \cup {NoBody, ListBody}

SearchArgs ==
  {NoArgs}
    \cup Vary([customer_id |-> StrV(<<"1">>)], "customer_id",
              {StrV(<<"1">>), StrV(<<"2">>), StrV(<<"0">>), StrV(<<"x">>), StrV(<<>>)})
    \cup Vary([date_from |-> IsoDate(2023, 1, 1)], "date_from",
              {IsoDate(2023, 1, 1), SlashDate(2023, 1, 1)})
    \cup {[product_name |-> StrV(<<"a">>)], [region_name |-> StrV(<<"B">>)],
          [customer_id |-> StrV(<<"2">>), product_name |-> StrV(<<"a">>)],
          [category_name |-> StrV(<<"A">>), date_to |-> IsoDate(2023, 1, 1)]}

Formats == {None, StrV(Chars("json")), StrV(Chars("xml")), StrV(Chars("XML")), StrV(Chars("csv")),
            StrV(Chars(" "))}

\* the bodies a route is sent
Bodies(route) ==
  CASE route \in {"create_category", "update_category"} -> NamedBodies("category_name")
    [] route \in {"create_region", "update_region"} -> NamedBodies("region_name")
    [] route \in {"create_customer", "update_customer"} -> CustomerBodies
    [] route \in {"create_product", "update_product"} -> ProductBodies
    [] route \in {"create_sale", "update_sale"} -> SaleBodies
    [] route = "login" -> LoginBodies
    [] OTHER -> {NoBody}

AllBodies ==
  NamedBodies("category_name") \cup NamedBodies("region_name") \cup CustomerBodies
    \cup ProductBodies \cup SaleBodies \cup LoginBodies

\* the identifiers in the path of a route
PathIds(route) ==
  IF route \in {"get_category", "update_category", "delete_category", "get_region",
                "update_region", "delete_region", "get_customer", "update_customer",
                "delete_customer", "get_product", "update_product", "delete_product",
                "get_sale", "update_sale", "delete_sale"}
    THEN 1..MaxId ELSE {0}

QueryArgs(route) == IF route = "search_sales" THEN SearchArgs ELSE {NoArgs}

-----------------------------------------------------------------------------
(* The state machine: one action per route *)

Routes == ProtectedRoutes \cup {"health", "login", "unrouted"}

\* the Authorization headers clients with inputs In send: their own, and the
\* tokens the logins have returned
Auths(In) == In.auth \cup {Bearer(grant.token) : grant \in issued}

Idle == req = NoRequest

GET_health(In) ==
  /\ Idle
  /\ \E auth \in Auths(In), id \in PathIds("health"), fmt \in In.fmt,
        body \in In.bodies \cap Bodies("health"), args \in QueryArgs("health"),
        fault \in In.fault :
       LET r == Request("health", id, auth, fmt, body, args, fault)
       IN Serve(r, health(r, Stored))
POST_auth_login(In) ==
  /\ Idle
  /\ \E auth \in Auths(In), id \in PathIds("login"), fmt \in In.fmt,
        body \in In.bodies \cap Bodies("login"), args \in QueryArgs("login"),
        fault \in In.fault :
       LET r == Request("login", id, auth, fmt, body, args, fault)
       IN Serve(r, login(r, Stored))
GET_categories(In) ==
  /\ Idle
  /\ \E auth \in Auths(In), id \in PathIds("list_categories"), fmt \in In.fmt,
        body \in In.bodies \cap Bodies("list_categories"), args \in QueryArgs("list_categories"),
        fault \in In.fault :
       LET r == Request("list_categories", id, auth, fmt, body, args, fault)
       IN Serve(r, list_categories(r, Stored))
POST_categories(In) ==
  /\ Idle
  /\ \E auth \in Auths(In), id \in PathIds("create_category"), fmt \in In.fmt,
        body \in In.bodies \cap Bodies("create_category"), args \in QueryArgs("create_category"),
        fault \in In.fault :
       LET r == Request("create_category", id, auth, fmt, body, args, fault)
       IN Serve(r, create_category(r, Stored))
GET_category(In) ==
  /\ Idle
  /\ \E auth \in Auths(In), id \in PathIds("get_category"), fmt \in In.fmt,
        body \in In.bodies \cap Bodies("get_category"), args \in QueryArgs("get_category"),
        fault \in In.fault :
       LET r == Request("get_category", id, auth, fmt, body, args, fault)
       IN Serve(r, get_category(r, Stored))
PUT_category(In) ==
  /\ Idle
  /\ \E auth \in Auths(In), id \in PathIds("update_category"), fmt \in In.fmt,
        body \in In.bodies \cap Bodies("update_category"), args \in QueryArgs("update_category"),
        fault \in In.fault :
       LET r == Request("update_category", id, auth, fmt, body, args, fault)
       IN Serve(r, update_category(r, Stored))
DELETE_category(In) ==
  /\ Idle
  /\ \E auth \in Auths(In), id \in PathIds("delete_category"), fmt \in In.fmt,
        body \in In.bodies \cap Bodies("delete_category"), args \in QueryArgs("delete_category"),
        fault \in In.fault :
       LET r == Request("delete_category", id, auth, fmt, body, args, fault)
       IN Serve(r, delete_category(r, Stored))
GET_regions(In) ==
  /\ Idle
  /\ \E auth \in Auths(In), id \in PathIds("list_regions"), fmt \in In.fmt,
        body \in In.bodies \cap Bodies("list_regions"), args \in QueryArgs("list_regions"),
        fault \in In.fault :
       LET r == Request("list_regions", id, auth, fmt, body, args, fault)
       IN Serve(r, list_regions(r, Stored))
POST_regions(In) ==
  /\ Idle
  /\ \E auth \in Auths(In), id \in PathIds("create_region"), fmt \in In.fmt,
        body \in In.bodies \cap Bodies("create_region"), args \in QueryArgs("create_region"),
        fault \in In.fault :
       LET r == Request("create_region", id, auth, fmt, body, args, fault)
       IN Serve(r, create_region(r, Stored))
GET_region(In) ==
  /\ Idle
  /\ \E auth \in Auths(In), id \in PathIds("get_region"), fmt \in In.fmt,
        body \in In.bodies \cap Bodies("get_region"), args \in QueryArgs("get_region"),
        fault \in In.fault :
       LET r == Request("get_region", id, auth, fmt, body, args, fault)
       IN Serve(r, get_region(r, Stored))
PUT_region(In) ==
  /\ Idle
  /\ \E auth \in Auths(In), id \in PathIds("update_region"), fmt \in In.fmt,
        body \in In.bodies \cap Bodies("update_region"), args \in QueryArgs("update_region"),
        fault \in In.fault :
       LET r == Request("update_region", id, auth, fmt, body, args, fault)
       IN Serve(r, update_region(r, Stored))
DELETE_region(In) ==
  /\ Idle
  /\ \E auth \in Auths(In), id \in PathIds("delete_region"), fmt \in In.fmt,
        body \in In.bodies \cap Bodies("delete_region"), args \in QueryArgs("delete_region"),
        fault \in In.fault :
       LET r == Request("delete_region", id, auth, fmt, body, args, fault)
       IN Serve(r, delete_region(r, Stored))
GET_customers(In) ==
  /\ Idle
  /\ \E auth \in Auths(In), id \in PathIds("list_customers"), fmt \in In.fmt,
        body \in In.bodies \cap Bodies("list_customers"), args \in QueryArgs("list_customers"),
        fault \in In.fault :
       LET r == Request("list_customers", id, auth, fmt, body, args, fault)
       IN Serve(r, list_customers(r, Stored))
POST_customers(In) ==
  /\ Idle
  /\ \E auth \in Auths(In), id \in PathIds("create_customer"), fmt \in In.fmt,
        body \in In.bodies \cap Bodies("create_customer"), args \in QueryArgs("create_customer"),
        fault \in In.fault :
       LET r == Request("create_customer", id, auth, fmt, body, args, fault)
       IN Serve(r, create_customer(r, Stored))
GET_customer(In) ==
  /\ Idle
  /\ \E auth \in Auths(In), id \in PathIds("get_customer"), fmt \in In.fmt,
        body \in In.bodies \cap Bodies("get_customer"), args \in QueryArgs("get_customer"),
        fault \in In.fault :
       LET r == Request("get_customer", id, auth, fmt, body, args, fault)
       IN Serve(r, get_customer(r, Stored))
PUT_customer(In) ==
  /\ Idle
  /\ \E auth \in Auths(In), id \in PathIds("update_customer"), fmt \in In.fmt,
        body \in In.bodies \cap Bodies("update_customer"), args \in QueryArgs("update_customer"),
        fault \in In.fault :
       LET r == Request("update_customer", id, auth, fmt, body, args, fault)
       IN Serve(r, update_customer(r, Stored))
DELETE_customer(In) ==
  /\ Idle
  /\ \E auth \in Auths(In), id \in PathIds("delete_customer"), fmt \in In.fmt,
        body \in In.bodies \cap Bodies("delete_customer"), args \in QueryArgs("delete_customer"),
        fault \in In.fault :
       LET r == Request("delete_customer", id, auth, fmt, body, args, fault)
       IN Serve(r, delete_customer(r, Stored))
GET_products(In) ==
  /\ Idle
  /\ \E auth \in Auths(In), id \in PathIds("list_products"), fmt \in In.fmt,
        body \in In.bodies \cap Bodies("list_products"), args \in QueryArgs("list_products"),
        fault \in In.fault :
       LET r == Request("list_products", id, auth, fmt, body, args, fault)
       IN Serve(r, list_products(r, Stored))
POST_products(In) ==
  /\ Idle
  /\ \E auth \in Auths(In), id \in PathIds("create_product"), fmt \in In.fmt,
        body \in In.bodies \cap Bodies("create_product"), args \in QueryArgs("create_product"),
        fault \in In.fault :
       LET r == Request("create_product", id, auth, fmt, body, args, fault)
       IN Serve(r, create_product(r, Stored))
GET_product(In) ==
  /\ Idle
  /\ \E auth \in Auths(In), id \in PathIds("get_product"), fmt \in In.fmt,
        body \in In.bodies \cap Bodies("get_product"), args \in QueryArgs("get_product"),
        fault \in In.fault :
       LET r == Request("get_product", id, auth, fmt, body, args, fault)
       IN Serve(r, get_product(r, Stored))
PUT_product(In) ==
  /\ Idle
  /\ \E auth \in Auths(In), id \in PathIds("update_product"), fmt \in In.fmt,
        body \in In.bodies \cap Bodies("update_product"), args \in QueryArgs("update_product"),
        fault \in In.fault :
       LET r == Request("update_product", id, auth, fmt, body, args, fault)
       IN Serve(r, update_product(r, Stored))
DELETE_product(In) ==
  /\ Idle
  /\ \E auth \in Auths(In), id \in PathIds("delete_product"), fmt \in In.fmt,
        body \in In.bodies \cap Bodies("delete_product"), args \in QueryArgs("delete_product"),
        fault \in In.fault :
       LET r == Request("delete_product", id, auth, fmt, body, args, fault)
       IN Serve(r, delete_product(r, Stored))
GET_sales(In) ==
  /\ Idle
  /\ \E auth \in Auths(In), id \in PathIds("list_sales"), fmt \in In.fmt,
        body \in In.bodies \cap Bodies("list_sales"), args \in QueryArgs("list_sales"),
        fault \in In.fault :
       LET r == Request("list_sales", id, auth, fmt, body, args, fault)
       IN Serve(r, list_sales(r, Stored))
POST_sales(In) ==
  /\ Idle
  /\ \E auth \in Auths(In), id \in PathIds("create_sale"), fmt \in In.fmt,
        body \in In.bodies \cap Bodies("create_sale"), args \in QueryArgs("create_sale"),
        fault \in In.fault :
       LET r == Request("create_sale", id, auth, fmt, body, args, fault)
       IN Serve(r, create_sale(r, Stored))
GET_sale(In) ==
  /\ Idle
  /\ \E auth \in Auths(In), id \in PathIds("get_sale"), fmt \in In.fmt,
        body \in In.bodies \cap Bodies("get_sale"), args \in QueryArgs("get_sale"),
        fault \in In.fault :
       LET r == Request("get_sale", id, auth, fmt, body, args, fault)
       IN Serve(r, get_sale(r, Stored))
PUT_sale(In) ==
  /\ Idle
  /\ \E auth \in Auths(In), id \in PathIds("update_sale"), fmt \in In.fmt,
        body \in In.bodies \cap Bodies("update_sale"), args \in QueryArgs("update_sale"),
        fault \in In.fault :
       LET r == Request("update_sale", id, auth, fmt, body, args, fault)
       IN Serve(r, update_sale(r, Stored))
DELETE_sale(In) ==
  /\ Idle
  /\ \E auth \in Auths(In), id \in PathIds("delete_sale"), fmt \in In.fmt,
        body \in In.bodies \cap Bodies("delete_sale"), args \in QueryArgs("delete_sale"),
        fault \in In.fault :
       LET r == Request("delete_sale", id, auth, fmt, body, args, fault)
       IN Serve(r, delete_sale(r, Stored))
GET_sales_search(In) ==
  /\ Idle
  /\ \E auth \in Auths(In), id \in PathIds("search_sales"), fmt \in In.fmt,
        body \in In.bodies \cap Bodies("search_sales"), args \in QueryArgs("search_sales"),
        fault \in In.fault :
       LET r == Request("search_sales", id, auth, fmt, body, args, fault)
       IN Serve(r, search_sales(r, Stored))
GET_unrouted(In) ==
  /\ Idle
  /\ \E auth \in Auths(In), id \in PathIds("unrouted"), fmt \in In.fmt,
        body \in In.bodies \cap Bodies("unrouted"), args \in QueryArgs("unrouted"),
        fault \in In.fault :
       LET r == Request("unrouted", id, auth, fmt, body, args, fault)
       IN Serve(r, unrouted(r, Stored))

EmptyDb == [t \in Tables |-> [x \in {} |-> None]]

\* a database with one row in each table, each referring to the others' row 1
SeededDb ==
  [categories |-> (1 :> [category_id |-> IntV(1), category_name |-> StrV(<<"A">>)]),
   regions |-> (1 :> [region_id |-> IntV(1), region_name |-> StrV(<<"A">>)]),
   customers |-> (1 :> [customer_id |-> IntV(1), first_name |-> StrV(<<"A">>),
                        last_name |-> StrV(<<"A">>),
                        email |-> StrV(<<"a", "@", "b", ".", "c">>),
                        signup_date |-> DateV(20230101)]),
   products |-> (1 :> [product_id |-> IntV(1), product_name |-> StrV(<<"A">>),
                       category_id |-> IntV(1)]),
   sales_fact |-> (1 :> [sale_id |-> IntV(1), product_id |-> IntV(1),
                         sale_date |-> DateV(20230101), quantity |-> IntV(1),
                         price |-> DecV(199), customer_id |-> IntV(1),
                         region_id |-> IntV(1)])]

\* the databases the application is started over: each AUTO_INCREMENT counter
\* is past the keys stored
Seeds == {[db |-> EmptyDb, autoinc |-> [t \in AutoTables |-> 1]],
          [db |-> SeededDb, autoinc |-> [t \in AutoTables |-> 2]]}

\* the application as create_app leaves it, at clock t
Started(t, interpreters) ==
  /\ \E seed \in Seeds : db = seed.db /\ autoinc = seed.autoinc
  /\ now = t
  /\ issued = {}
  /\ python311 \in interpreters
  /\ req = NoRequest
  /\ resp = NoResponse
  /\ stmts = <<>>
  /\ writes = 0

Init == Started(0, BOOLEAN) /\ threads = <<>>

\* the requests of clients that send inputs In, one action per route
Requests(In) ==
  \/ GET_health(In) \/ POST_auth_login(In)
  \/ GET_categories(In) \/ POST_categories(In) \/ GET_category(In)
  \/ PUT_category(In) \/ DELETE_category(In)
  \/ GET_regions(In) \/ POST_regions(In) \/ GET_region(In)
  \/ PUT_region(In) \/ DELETE_region(In)
  \/ GET_customers(In) \/ POST_customers(In) \/ GET_customer(In)
  \/ PUT_customer(In) \/ DELETE_customer(In)
  \/ GET_products(In) \/ POST_products(In) \/ GET_product(In)
  \/ PUT_product(In) \/ DELETE_product(In)
  \/ GET_sales(In) \/ POST_sales(In) \/ GET_sale(In)
  \/ PUT_sale(In) \/ DELETE_sale(In)
  \/ GET_sales_search(In) \/ GET_unrouted(In)

\* the legal formats: no format parameter (_get_format reads it as "json"), and xml
JsonXml == {None, StrV(Chars("xml"))}

\* clients that hold a token and send any body in JSON or XML
CrudIn ==
  [auth |-> {Bearer(TokenAt(0))}, fmt |-> JsonXml, fault |-> {FALSE}, bodies |-> AllBodies]

Next == Requests(CrudIn) \/ ctx_pop

Spec == Init /\ [][Next]_vars

-----------------------------------------------------------------------------
(* Clients without a valid token *)

\* the clock at which the tokens issued at clock 0 have expired
LateClock == TokenTTL * TicksPerSec

\* a token signed with another key, and an unsigned one
ForgedToken == [TokenAt(LateClock) EXCEPT !.key = "guess"]
UnsignedToken == [TokenAt(LateClock) EXCEPT !.alg = "none", !.key = ""]

\* missing, another scheme, a lower-case scheme, garbage, forged, unsigned, expired
BadHeaders ==
  {NoHeader, Header("Basic", TokenAt(LateClock)), Header("bearer", TokenAt(LateClock)),
   Bearer(NoToken), Bearer(ForgedToken), Bearer(UnsignedToken), Bearer(TokenAt(0))}

\* one well-formed body per resource, and the bodies that are no JSON object
SomeBodies ==
  {Dict(NamedBase("category_name")), Dict(NamedBase("region_name")), Dict(CustomerBase),
   Dict(ProductBase), Dict(SaleBase), NoBody, ListBody}

\* clients without a valid token (until a login gives them one), any format,
\* over a database that may fail
AuthIn ==
  [auth |-> BadHeaders, fmt |-> Formats, fault |-> BOOLEAN,
   bodies |-> SomeBodies \cup LoginBodies]

InitAuth == Started(LateClock, BOOLEAN) /\ threads = <<>>

NextAuth == Requests(AuthIn) \/ ctx_pop

SpecAuth == InitAuth /\ [][NextAuth]_vars

-----------------------------------------------------------------------------
(* Tokens over time *)

\* the instants at which the clock is read: the first ticks, and the ticks
\* around the end of the lifetime of a token issued then
Instants ==
  (0..MaxSkew) \cup {TokenTTL * TicksPerSec + d : d \in (0 - 1)..MaxSkew}

\* time passes between two requests
Tick ==
  /\ Idle
  /\ \E t \in Instants : t > now /\ now' = t
  /\ UNCHANGED <<db, autoinc, issued, python311, req, resp, stmts, writes, threads>>

\* clients that log in, rightly or wrongly, and present what they are given
TokenIn ==
  [auth |-> {NoHeader}, fmt |-> {None, StrV(Chars("csv"))}, fault |-> {FALSE},
   bodies |-> {NoBody, Dict(LoginBase), Dict([LoginBase EXCEPT !.password = StrV(<<"guess">>)])}]

\* the interpreter does not matter to the tokens: one is enough
InitToken == Started(0, {TRUE}) /\ threads = <<>>

NextToken == Requests(TokenIn) \/ Tick \/ ctx_pop

SpecToken == InitToken /\ [][NextToken]_vars

-----------------------------------------------------------------------------
(* Two creates at the same time: the threaded server runs each request in a
   thread of its own, over a connection and a transaction of its own *)

Threads == {1, 2}

\* the table and key column of a create with an explicit key
KeyedTable(route) == IF route = "create_customer" THEN "customers" ELSE "sales_fact"
KeyColumn(route) == IF route = "create_customer" THEN "customer_id" ELSE "sale_id"

\* valid creates of key k that differ in another field
KeyedBodies(route, k) ==
  IF route = "create_customer"
    THEN {Dict(b) : b \in Vary([CustomerBase EXCEPT !.customer_id = IntV(k)], "first_name", Names)}
    ELSE {Dict(b) : b \in Vary([SaleBase EXCEPT !.sale_id = IntV(k)], "quantity", Quantities)}

\* two clients send a create of the same key, which is not stored; each thread
\* holds its request, the tables as its transaction has them (pending), what
\* its handler returns (rv) and what it has sent (resp)
InitConc ==
  /\ Started(0, BOOLEAN)
  /\ \E route \in {"create_customer", "create_sale"} :
       \E k \in (1..MaxId) \ DOMAIN db[KeyedTable(route)] :
         threads \in [Threads ->
                        {[pc |-> "accepted", pending |-> db, rv |-> NoResponse,
                          resp |-> NoResponse,
                          req |-> Request(route, 0, Bearer(TokenAt(0)), fmt, body, NoArgs, FALSE)] :
                           fmt \in {None, StrV(Chars("xml"))}, body \in KeyedBodies(route, k)}]

\* the key the INSERT of thread t writes
InsertKey(t) == BodyGet(threads[t].req.body, KeyColumn(threads[t].req.route)).n

\* another transaction has inserted the key thread t inserts and has not yet
\* committed: the INSERT of t waits for its row lock
Waits(t) ==
  \E o \in Threads \ {t} :
    /\ threads[o].pc = "executed"
    /\ threads[o].req.route = threads[t].req.route
    /\ InsertKey(o) = InsertKey(t)

\* thread t is at out, what its handler makes of the rows committed so far:
\* its INSERT has written a row in its transaction, or the handler has raised
\* and except Exception has built the reply
Handled(t, out) ==
  /\ threads' = [threads EXCEPT ![t].rv = out.resp,
                                ![t].pending = out.store.db,
                                ![t].pc = IF out.store.db # db THEN "executed" ELSE "raised"]
  /\ UNCHANGED <<db, autoinc, now, issued, python311, req, resp, stmts, writes>>

\* the handler of thread t up to cur.execute(INSERT ...)
cur_execute(t) ==
  /\ threads # <<>>
  /\ threads[t].pc = "accepted"
  /\ ~Waits(t)
  /\ IF threads[t].req.route = "create_customer"
       THEN Handled(t, wsgi_app(threads[t].req, Stored, create_customer(threads[t].req, Stored)))
       ELSE Handled(t, wsgi_app(threads[t].req, Stored, create_sale(threads[t].req, Stored)))

\* _db().commit() of thread t: its row is stored and its lock released
conn_commit(t) ==
  /\ threads # <<>>
  /\ threads[t].pc = "executed"
  /\ db' = threads[t].pending
  /\ threads' = [threads EXCEPT ![t].pc = "committed"]
  /\ UNCHANGED <<autoinc, now, issued, python311, req, resp, stmts, writes>>

\* thread t returns: the 201 of api_response, or the reply of _handle_db_error
reply(t) ==
  /\ threads # <<>>
  /\ threads[t].pc \in {"committed", "raised"}
  /\ threads' = [threads EXCEPT ![t].resp = threads[t].rv, ![t].pc = "replied"]
  /\ UNCHANGED <<db, autoinc, now, issued, python311, req, resp, stmts, writes>>

NextConc == \E t \in Threads : cur_execute(t) \/ conn_commit(t) \/ reply(t)

SpecConc == InitConc /\ [][NextConc]_vars

-----------------------------------------------------------------------------
(* Properties of the auth gate, the login and the response format *)

\* the format value of r is none of json and xml, as _get_format reads it
IllegalFormat(r) ==
  Truthy(r.fmt) /\ lower(strip(r.fmt.s)) \notin {Chars("json"), Chars("xml")}

\* the Authorization header of r is absent, is not a Bearer header, or carries
\* a token that is malformed, signed with another key, or expired
BadCredentials(r) ==
  \/ ~r.auth.present
  \/ r.auth.scheme # "Bearer"
  \/ ~r.auth.token.wellformed
  \/ r.auth.token.alg # "HS256"
  \/ r.auth.token.key # JWT_SECRET_KEY
  \/ r.auth.token.exp * TicksPerSec <= now

\* C1: on every protected route a request without a valid bearer token gets
\* status 401, whatever its body and query string (the format included) hold
C1_Unauthenticated401 ==
  (req.route \in ProtectedRoutes /\ BadCredentials(req)) => resp.status = 401

\* the body of r is a JSON object whose username and password are the
\* configured ones
RightCredentials(r) ==
  /\ r.body.json = "dict"
  /\ BodyGet(r.body, "username") = API_USERNAME
  /\ BodyGet(r.body, "password") = API_PASSWORD

\* C3: login (sent with a legal format) answers 200 with a token (token_type
\* Bearer, expires_in 3600) exactly when username and password are the
\* configured ones, and 401 with no token in every other case
C3_LoginExactly ==
  (req.route = "login" /\ ~IllegalFormat(req)) =>
    IF RightCredentials(req)
      THEN /\ resp.status = 200
           /\ "access_token" \in DOMAIN resp.payload
           /\ resp.payload.token_type = StrV(<<"Bearer">>)
           /\ resp.payload.expires_in = IntV(TokenTTL)
      ELSE /\ resp.status = 401
           /\ "access_token" \notin DOMAIN resp.payload

\* C4: on every route a request whose format is neither json nor xml gets a
\* 400 response
C4_IllegalFormat400 == IllegalFormat(req) => resp.status = 400

\* the grants that gave the token request r presents
Grants(r) == {g \in issued : r.auth = Bearer(g.token)}

\* C2 (as stated): a token a login returned at time t passes the auth gate of
\* every protected route at every time before t + 3600 s, and is answered 401
\* 'Token expired' at every time after t + 3600 s
C2_LifetimeFromLogin ==
  \A g \in Grants(req) :
    req.route \in ProtectedRoutes =>
      /\ now < g.at + TokenTTL * TicksPerSec => resp.status # 401
      /\ now > g.at + TokenTTL * TicksPerSec =>
           resp.status = 401 /\ resp.payload.error = StrV(<<"Token", "expired">>)

\* C2 (amended): the lifetime runs from the whole second the login fell in: the
\* token passes the gate at every time before floor(t) + 3600 s; from that
\* instant on it is refused, with 401 'Token expired' where the format is legal
\* and with the server's own 500 where it is not
C2_LifetimeFromWholeSecond ==
  \A g \in Grants(req) :
    req.route \in ProtectedRoutes =>
      IF now < (Timestamp(g.at) + TokenTTL) * TicksPerSec
        THEN resp.status # 401
      ELSE IF IllegalFormat(req)
        THEN resp.status = 500 /\ resp.mimetype = "text/html"
      ELSE resp.status = 401 /\ resp.payload.error = StrV(<<"Token", "expired">>)

\* a token returned in the middle of a second is refused 3600 s after the
\* start of that second, less than 3600 s after the login
C2_Witness ==
  \E g \in Grants(req) :
    /\ req.route \in ProtectedRoutes
    /\ g.at % TicksPerSec # 0
    /\ now < g.at + TokenTTL * TicksPerSec
    /\ resp.status = 401
    /\ resp.payload.error = StrV(<<"Token", "expired">>)

-----------------------------------------------------------------------------
(* Properties of the writes *)

\* C5: a request with an illegal format changes no table and commits nothing,
\* even with a valid token and a valid body
C5_IllegalFormatWritesNothing ==
  [][IllegalFormat(req') =>
       /\ db' = db
       /\ \A i \in DOMAIN stmts' : stmts'[i] # "COMMIT"]_vars

\* the format of r is xml, as _get_format reads it
WantsXml(r) == Truthy(r.fmt) /\ lower(strip(r.fmt.s)) = Chars("xml")

\* C6: the format is the same for every outcome of a request: with format=xml
\* every response, 200, 201, 400, 401, 404, 409 or 500, is application/xml, and
\* with format=json or none every response is JSON
C6_UniformFormat ==
  (req # NoRequest /\ ~IllegalFormat(req)) =>
    /\ resp.status \in {200, 201, 400, 401, 404, 409, 500}
    /\ resp.mimetype = IF WantsXml(req) THEN "application/xml" ELSE "application/json"
    /\ WantsXml(req) => resp.root = IF resp.status < 400 THEN "response" ELSE "error"

\* an error of the database layer is returned as XML to a client that asked for it
C6_Witness ==
  /\ WantsXml(req)
  /\ resp.status = 409
  /\ resp.mimetype = "application/xml"

\* the values the validation is there to refuse
Blank(v) == v.k = "str" /\ strip(v.s) = <<>>
BelowOne(v) == v.k = "int" /\ v.n < 1
NoAtOrDot(v) ==
  /\ v.k = "str" /\ v.s # <<>>
  /\ \/ \A i \in DOMAIN v.s : v.s[i] # "@"
     \/ \A i, j \in DOMAIN v.s : (v.s[i] = "@" /\ j > i) => v.s[j] # "."
NotYearMonthDay(v) ==
  /\ v.k = "str"
  /\ ~(/\ Len(v.s) = 10
       /\ \A i \in 1..10 : IF i \in {5, 8} THEN v.s[i] = "-" ELSE v.s[i] \in Digits)

\* the body of r fails the validation of the create or update it is sent to
FailsValidation(r) ==
  /\ r.body.json = "dict"
  /\ CASE r.route \in {"create_category", "update_category"} ->
            Blank(BodyGet(r.body, "category_name"))
       [] r.route \in {"create_region", "update_region"} ->
            Blank(BodyGet(r.body, "region_name"))
       [] r.route \in {"create_customer", "update_customer"} ->
            \/ r.route = "create_customer" /\ BelowOne(BodyGet(r.body, "customer_id"))
            \/ Blank(BodyGet(r.body, "first_name"))
            \/ Blank(BodyGet(r.body, "last_name"))
            \/ NoAtOrDot(BodyGet(r.body, "email"))
            \/ NotYearMonthDay(BodyGet(r.body, "signup_date"))
       [] r.route \in {"create_product", "update_product"} ->
            \/ Blank(BodyGet(r.body, "product_name"))
            \/ BelowOne(BodyGet(r.body, "category_id"))
       [] r.route \in {"create_sale", "update_sale"} ->
            \/ r.route = "create_sale" /\ BelowOne(BodyGet(r.body, "sale_id"))
            \/ \E f \in {"product_id", "quantity", "customer_id", "region_id"} :
                 BelowOne(BodyGet(r.body, f))
            \/ NotYearMonthDay(BodyGet(r.body, "sale_date"))
       [] OTHER -> FALSE

\* C7: a create or update whose body fails validation (sent with a legal
\* format) is answered 400 and leaves every table as it was
C7_InvalidBodyRejected ==
  [][(FailsValidation(req') /\ ~IllegalFormat(req')) =>
       (resp'.status = 400 /\ db' = db)]_vars

-----------------------------------------------------------------------------
(* Round trip, delete, and two creates of one key *)

CreateRoutes ==
  {"create_category", "create_region", "create_customer", "create_product", "create_sale"}

\* GET of the resource with identifier id, sent by the client of r after r
GetRequest(route, r, id) == Request(route, id, r.auth, None, NoBody, NoArgs, FALSE)

\* the reply to a GET of the resource r created, by the identifier of its reply
GetCreated(r, created) ==
  CASE r.route = "create_category" ->
         wsgi_app(GetRequest("get_category", r, created.location.id), Stored,
                  get_category(GetRequest("get_category", r, created.location.id), Stored)).resp
    [] r.route = "create_region" ->
         wsgi_app(GetRequest("get_region", r, created.location.id), Stored,
                  get_region(GetRequest("get_region", r, created.location.id), Stored)).resp
    [] r.route = "create_customer" ->
         wsgi_app(GetRequest("get_customer", r, created.location.id), Stored,
                  get_customer(GetRequest("get_customer", r, created.location.id), Stored)).resp
    [] r.route = "create_product" ->
         wsgi_app(GetRequest("get_product", r, created.location.id), Stored,
                  get_product(GetRequest("get_product", r, created.location.id), Stored)).resp
    [] r.route = "create_sale" ->
         wsgi_app(GetRequest("get_sale", r, created.location.id), Stored,
                  get_sale(GetRequest("get_sale", r, created.location.id), Stored)).resp

\* C8 (as stated): after a create answered 201, a get by the identifier of the
\* reply returns 200 with the fields submitted in the create
C8_RoundTripSubmitted ==
  (req.route \in CreateRoutes /\ resp.status = 201) =>
    /\ GetCreated(req, resp).status = 200
    /\ \A f \in DOMAIN req.body.keys :
         /\ f \in DOMAIN GetCreated(req, resp).payload
         /\ GetCreated(req, resp).payload[f] = req.body.keys[f]

\* a payload with its price as the DECIMAL column returns it
Kept(payload) ==
  IF "price" \in DOMAIN payload THEN [payload EXCEPT !.price = ToDecimal(@)] ELSE payload

\* C8 (amended): after a create answered 201, a get by the identifier of the
\* reply returns 200 with the fields of the 201 reply, which are the submitted
\* ones as validation normalised them (names stripped, numbers as integers,
\* dates as YYYY-MM-DD), the price as a decimal; a product comes with the name
\* of its category, and is found only if a row of that category is stored
C8_RoundTripNormalised ==
  (req.route \in CreateRoutes /\ resp.status = 201) =>
    IF req.route = "create_product"
      THEN IF resp.payload.category_id.n \in DOMAIN db.categories
             THEN /\ GetCreated(req, resp).status = 200
                  /\ GetCreated(req, resp).payload =
                       resp.payload @@
                       [category_name |-> db.categories[resp.payload.category_id.n].category_name]
             ELSE GetCreated(req, resp).status = 404
      ELSE /\ GetCreated(req, resp).status = 200
           /\ GetCreated(req, resp).payload = Kept(resp.payload)

\* a sale created with a price and a date is read back
C8_Witness ==
  /\ req.route = "create_sale"
  /\ resp.status = 201
  /\ GetCreated(req, resp).status = 200
  /\ GetCreated(req, resp).payload.sale_date = IsoDate(2023, 1, 1)
  /\ GetCreated(req, resp).payload.price = DecV(199)

DeleteRoutes ==
  {"delete_category", "delete_region", "delete_customer", "delete_product", "delete_sale"}

DeletedFrom(route) ==
  CASE route = "delete_category" -> "categories"
    [] route = "delete_region" -> "regions"
    [] route = "delete_customer" -> "customers"
    [] route = "delete_product" -> "products"
    [] route = "delete_sale" -> "sales_fact"

\* table T of d without the row of key id
Without(d, T, id) == [d EXCEPT ![T] = [k \in DOMAIN @ \ {id} |-> @[k]]]

\* C9: a delete (authenticated, in a legal format) of an id that has no row is
\* answered 404 and changes nothing; a delete of an id that has a row is
\* answered 200 with deleted=true and removes that row and no other, so that
\* every later delete of the id is answered 404 until the id is created again
C9_DeleteIdempotent ==
  [][(req'.route \in DeleteRoutes /\ ~IllegalFormat(req')) =>
       IF req'.id \in DOMAIN db[DeletedFrom(req'.route)]
         THEN /\ resp'.status = 200
              /\ resp'.payload.deleted = BoolV(TRUE)
              /\ db' = Without(db, DeletedFrom(req'.route), req'.id)
         ELSE /\ resp'.status = 404
              /\ db' = db]_vars

\* a row has been deleted with a 200
C9_Witness ==
  /\ req.route \in DeleteRoutes
  /\ resp.status = 200
  /\ resp.payload.deleted = BoolV(TRUE)
  /\ req.id \notin DOMAIN db[DeletedFrom(req.route)]
  /\ writes = 1

\* C10: two creates of one explicit key that is not stored, both valid and
\* handled at the same time, end in every interleaving with one 201 and one
\* 409, and the row of that key holds the fields of the request answered 201
C10_OneCreateWins ==
  (threads # <<>> /\ \A t \in Threads : threads[t].pc = "replied") =>
    \E w \in Threads : \A l \in Threads \ {w} :
      /\ threads[w].resp.status = 201
      /\ threads[l].resp.status = 409
      /\ InsertKey(w) \in DOMAIN db[KeyedTable(threads[w].req.route)]
      /\ BothDatesToStr(db[KeyedTable(threads[w].req.route)][InsertKey(w)])
           = Kept(threads[w].req.body.keys)

\* both have replied, and the request that lost carried other fields
C10_Witness ==
  /\ threads # <<>>
  /\ \A t \in Threads : threads[t].pc = "replied"
  /\ threads[1].req.body # threads[2].req.body
  /\ threads[2].resp.status = 201
  /\ threads[1].resp.status = 409

-----------------------------------------------------------------------------
(* Failures of storage, updates, search and lists *)

KeyedCreates == {"create_customer", "create_sale"}

\* r passes the gate and the validation of its handler, in a legal format
Wellformed(r) ==
  /\ ~BadCredentials(r)
  /\ ~IllegalFormat(r)
  /\ r.body.json = "dict"
  /\ ~FailsValidation(r)

C11_Witness500 ==
  /\ req.route \in KeyedCreates
  /\ req.fault
  /\ resp.status = 500
  /\ resp.payload = [error |-> StrV(<<"Database", "error">>), status |-> IntV(500)]

UpdateRoutes ==
  {"update_category", "update_region", "update_customer", "update_product", "update_sale"}

\* the table and key column of the resource a route addresses
TableOf(route) ==
  CASE route \in {"create_category", "get_category", "update_category", "delete_category",
                  "list_categories"} -> "categories"
    [] route \in {"create_region", "get_region", "update_region", "delete_region",
                  "list_regions"} -> "regions"
    [] route \in {"create_customer", "get_customer", "update_customer", "delete_customer",
                  "list_customers"} -> "customers"
    [] route \in {"create_product", "get_product", "update_product", "delete_product",
                  "list_products"} -> "products"
    [] route \in {"create_sale", "get_sale", "update_sale", "delete_sale",
                  "list_sales"} -> "sales_fact"
IdColumn(table) ==
  CASE table = "categories" -> "category_id"
    [] table = "regions" -> "region_id"
    [] table = "customers" -> "customer_id"
    [] table = "products" -> "product_id"
    [] table = "sales_fact" -> "sale_id"

\* bodies every field of which passes validation on every interpreter
ValidNamed(namecol) ==
  {Dict(k) : k \in Vary(NamedBase(namecol), namecol, Names \cup PaddedNames)}
ValidBodies(route) ==
  CASE TableOf(route) = "categories" -> ValidNamed("category_name")
    [] TableOf(route) = "regions" -> ValidNamed("region_name")
    [] TableOf(route) = "customers" ->
         {Dict(k) : k \in Vary(CustomerBase, "customer_id", Ids \cup CoercedIds)
                          \cup Vary(CustomerBase, "first_name", Names \cup PaddedNames)
                          \cup {[CustomerBase EXCEPT !.customer_id = IntV(2),
                                                     !.first_name = StrV(<<"B">>)]}}
    [] TableOf(route) = "products" ->
         {Dict(k) : k \in Vary(ProductBase, "product_name", Names \cup PaddedNames)
                          \cup Vary(ProductBase, "category_id", Ids \cup CoercedIds)}
    [] TableOf(route) = "sales_fact" ->
         {Dict(k) : k \in Vary(SaleBase, "sale_id", Ids \cup CoercedIds)
                          \cup Vary(SaleBase, "product_id", Ids)
                          \cup Vary(SaleBase, "quantity", Quantities)
                          \cup Vary(SaleBase, "price", Prices \cup CoercedPrices)
                          \cup {[SaleBase EXCEPT !.sale_id = IntV(2), !.quantity = IntV(2)]}}

\* the reply to a GET of the resource r updated, by the identifier of its path
GetUpdated(r) ==
  CASE r.route = "update_category" ->
         wsgi_app(GetRequest("get_category", r, r.id), Stored,
                  get_category(GetRequest("get_category", r, r.id), Stored)).resp
    [] r.route = "update_region" ->
         wsgi_app(GetRequest("get_region", r, r.id), Stored,
                  get_region(GetRequest("get_region", r, r.id), Stored)).resp
    [] r.route = "update_customer" ->
         wsgi_app(GetRequest("get_customer", r, r.id), Stored,
                  get_customer(GetRequest("get_customer", r, r.id), Stored)).resp
    [] r.route = "update_product" ->
         wsgi_app(GetRequest("get_product", r, r.id), Stored,
                  get_product(GetRequest("get_product", r, r.id), Stored)).resp
    [] r.route = "update_sale" ->
         wsgi_app(GetRequest("get_sale", r, r.id), Stored,
                  get_sale(GetRequest("get_sale", r, r.id), Stored)).resp

\* r is an update with valid fields, authenticated and in a legal format
ValidUpdate(r) ==
  /\ r.route \in UpdateRoutes
  /\ ~BadCredentials(r) /\ ~IllegalFormat(r) /\ ~r.fault
  /\ r.body.json = "dict" /\ ~FailsValidation(r)
  /\ r.body \in ValidBodies(r.route)

\* C12 (as stated): after an update with valid fields answered 200, a get of
\* the id returns the submitted fields, under the identifier of the path; an
\* update of an id without a row is answered 404 and creates no row
C12_UpdateSubmitted ==
  [][ValidUpdate(req') =>
       IF req'.id \notin DOMAIN db[TableOf(req'.route)]
         THEN resp'.status = 404 /\ db' = db
       ELSE resp'.status = 200 =>
              /\ GetUpdated(req)'.status = 200
              /\ GetUpdated(req)'.payload[IdColumn(TableOf(req'.route))] = IntV(req'.id)
              /\ \A f \in DOMAIN req'.body.keys \ {IdColumn(TableOf(req'.route))} :
                   GetUpdated(req)'.payload[f] = req'.body.keys[f]]_vars

\* the reply to a get of the id once its update has been answered 200
C12_GetAfterUpdate ==
  (resp.status = 200 /\ ValidUpdate(req)) =>
    /\ resp.payload[IdColumn(TableOf(req.route))] = IntV(req.id)
    /\ IF req.route # "update_product"
         THEN /\ GetUpdated(req).status = 200
              /\ GetUpdated(req).payload = Kept(resp.payload)
       ELSE IF resp.payload.category_id.n \in DOMAIN db.categories
         THEN /\ GetUpdated(req).status = 200
              /\ GetUpdated(req).payload =
                   resp.payload @@
                   [category_name |-> db.categories[resp.payload.category_id.n].category_name]
       ELSE GetUpdated(req).status = 404

\* C12 (amended): after an update with valid fields answered 200, a get of the
\* id returns the fields of the 200 reply, which are the submitted ones as
\* validation normalised them, under the identifier of the path (the price as a
\* decimal; a product with the name of its category, and found only if a row of
\* that category is stored); an update of an id without a row is answered 404
\* and creates no row
C12_UpdateNormalised ==
  /\ []C12_GetAfterUpdate
  /\ [][(req'.route \in UpdateRoutes /\ req'.id \notin DOMAIN db[TableOf(req'.route)]) =>
          (resp'.status = 404 /\ db' = db) \/ ~ValidUpdate(req')]_vars

\* a sale has been updated by a body that names another sale_id
C12_Witness ==
  /\ req.route = "update_sale"
  /\ resp.status = 200
  /\ BodyGet(req.body, "sale_id") # IntV(req.id)
  /\ GetUpdated(req).payload.sale_id = IntV(req.id)
  /\ GetUpdated(req).payload.quantity = IntV(2)

\* filter name is supplied with a value
Given(r, name) == name \in DOMAIN r.args /\ r.args[name].s # <<>>

\* the day a YYYY-MM-DD string names, as the integer yyyymmdd
YearMonthDay(v) == DigitsValue(SubSeq(v.s, 1, 4) \o SubSeq(v.s, 6, 7) \o SubSeq(v.s, 9, 10))

\* a supplied customer_id is no integer >= 1, or a supplied date bound no date
BadFilter(r) ==
  \/ /\ Given(r, "customer_id")
     /\ ~(AllDigits(r.args.customer_id.s) /\ DigitsValue(r.args.customer_id.s) >= 1)
  \/ \E bound \in {"date_from", "date_to"} : Given(r, bound) /\ NotYearMonthDay(r.args[bound])

\* row of the view satisfies every filter r supplies
Satisfies(r, row) ==
  /\ Given(r, "product_name") =>
       Contains(lower(row.product_name.s), lower(r.args.product_name.s))
  /\ Given(r, "category_name") =>
       Contains(lower(row.product_category.s), lower(r.args.category_name.s))
  /\ Given(r, "region_name") => Contains(lower(row.region.s), lower(r.args.region_name.s))
  /\ Given(r, "customer_id") => row.customer_id.n = DigitsValue(r.args.customer_id.s)
  /\ Given(r, "date_from") => row.sale_date.n >= YearMonthDay(r.args.date_from)
  /\ Given(r, "date_to") => row.sale_date.n <= YearMonthDay(r.args.date_to)

ListRoutes == {"list_categories", "list_regions", "list_customers", "list_products", "list_sales"}

\* the primary keys of the items of a list reply, in the order of the reply
ListedKeys(route, response) ==
  [i \in DOMAIN response.payload.items |-> response.payload.items[i][IdColumn(TableOf(route))].n]

\* C14: the list of each resource (authenticated, in a legal format, over a
\* database that answers) returns every row stored for it, each once, by
\* ascending primary key, the products included
C14_ListComplete ==
  (req.route \in ListRoutes /\ ~BadCredentials(req) /\ ~IllegalFormat(req) /\ ~req.fault) =>
    /\ resp.status = 200
    /\ ListedKeys(req.route, resp) = SortedKeys(DOMAIN db[TableOf(req.route)])

\* the same of the four resources whose list reads one table
C14_ListCompleteButProducts ==
  (req.route \in ListRoutes \ {"list_products"}
     /\ ~BadCredentials(req) /\ ~IllegalFormat(req) /\ ~req.fault) =>
    /\ resp.status = 200
    /\ ListedKeys(req.route, resp) = SortedKeys(DOMAIN db[TableOf(req.route)])

IntegerFields == {"quantity", "category_id", "region_id", "customer_id", "product_id", "sale_id"}

\* the integer fields the handler of a route reads from the body
FieldsRead(route) ==
  CASE route = "create_customer" -> {"customer_id"}
    [] route \in {"create_product", "update_product"} -> {"category_id"}
    [] route = "create_sale" -> {"sale_id", "product_id", "quantity", "customer_id", "region_id"}
    [] route = "update_sale" -> {"product_id", "quantity", "customer_id", "region_id"}
    [] OTHER -> {}

\* one of the fields of the body of r holds an integer below 1
BelowOneIn(r, fields) ==
  \E f \in fields \cap DOMAIN r.body.keys : BelowOne(r.body.keys[f])

\* r is a create or update that passes the gate, in a legal format
Write(r) ==
  /\ r.route \in CreateRoutes \cup UpdateRoutes
  /\ ~BadCredentials(r) /\ ~IllegalFormat(r)
  /\ r.body.json = "dict"

\* C15 (as stated): on create and on update a quantity or identifier of 0 or
\* below in the body is answered 400, and a body whose fields are valid, the
\* value 1 among them, is not
C15_BoundaryEveryField ==
  Write(req) =>
    /\ BelowOneIn(req, IntegerFields) => resp.status = 400
    /\ req.body \in ValidBodies(req.route) => resp.status # 400

\* C15 (amended): the same of the fields the handler reads: the resource's own
\* identifier is read on create only (customers, sales), and an update takes it
\* from the path: with the other fields valid, an own identifier below 1 in the
\* body of an update is not answered 400
C15_BoundaryFieldsRead ==
  Write(req) =>
    /\ BelowOneIn(req, FieldsRead(req.route)) => resp.status = 400
    /\ req.body \in ValidBodies(req.route) => resp.status # 400
    /\ (req.route \in {"update_customer", "update_sale"}
          /\ BelowOneIn(req, {"customer_id", "sale_id"} \ FieldsRead(req.route))
          /\ ~FailsValidation(req)) => resp.status # 400

\* an update of a sale with quantity 0 has been answered 400
C15_Witness ==
  /\ req.route = "update_sale"
  /\ BodyGet(req.body, "quantity") = IntV(0)
  /\ resp.status = 400
  /\ resp.payload.error = StrV(<<"quantity", "must", "be", ">=", "minimum">>)

\* the body of the create or update r is one its validation refuses: a field
\* fails, or there is no body at all
InvalidBody(r) ==
  /\ r.route \in CreateRoutes \cup UpdateRoutes
  /\ FailsValidation(r) \/ r.body = NoBody

\* C16: on a protected route (in a legal format) the token is verified first,
\* the fields next, the storage last: a request without a valid token is
\* answered 401, an invalid body or not, and a request answered 401 or 400 has
\* run no statement against the storage
C16_TokenThenFieldsThenStorage ==
  (req.route \in ProtectedRoutes /\ ~IllegalFormat(req)) =>
    /\ BadCredentials(req) => resp.status = 401 /\ stmts = <<>>
    /\ resp.status \in {400, 401} => stmts = <<>>

\* a create without a valid token and without a valid body has been answered 401
C16_Witness ==
  /\ req.route \in CreateRoutes
  /\ ~IllegalFormat(req)
  /\ BadCredentials(req) /\ InvalidBody(req)
  /\ resp.status = 401

\* a create with a valid token and without a valid body has been answered 400
C16_Witness400 ==
  /\ req.route \in CreateRoutes
  /\ ~IllegalFormat(req)
  /\ ~BadCredentials(req) /\ InvalidBody(req)
  /\ resp.status = 400 /\ stmts = <<>>

\* what the server returns for the update r sent once more: its reply and the
\* store it leaves
UpdatedAgain(r) ==
  CASE r.route = "update_category" -> wsgi_app(r, Stored, update_category(r, Stored))
    [] r.route = "update_region" -> wsgi_app(r, Stored, update_region(r, Stored))
    [] r.route = "update_customer" -> wsgi_app(r, Stored, update_customer(r, Stored))
    [] r.route = "update_product" -> wsgi_app(r, Stored, update_product(r, Stored))
    [] r.route = "update_sale" -> wsgi_app(r, Stored, update_sale(r, Stored))

\* r is a valid update of an id that has a row
UpdateOfRow(r) ==
  /\ ValidUpdate(r)
  /\ r.id \in DOMAIN db[TableOf(r.route)]

\* C17: a valid update of an id that has a row is answered 200, also when the
\* submitted fields equal the stored ones, and the same update sent again is
\* answered the same 200 and leaves the rows as the first left them
C17_UpdateIdempotent ==
  UpdateOfRow(req) =>
    /\ resp.status = 200
    /\ UpdatedAgain(req).resp = resp
    /\ UpdatedAgain(req).store.db = db

\* what the code keeps of it: the update sent again leaves the rows as the
\* first left them, and is answered 404 'Not found'
C17_SecondUpdateNotFound ==
  UpdateOfRow(req) =>
    /\ resp.status \in {200, 404}
    /\ UpdatedAgain(req).resp.status = 404
    /\ UpdatedAgain(req).store.db = db

\* the ids of its table the write r is addressed to, the tables giving a as
\* their next ids: the id of the path, the key of the body of a create, or the
\* id the table gives the row
Addressed(r, a) ==
  IF r.route \in UpdateRoutes \cup DeleteRoutes THEN {r.id}
  ELSE IF TableOf(r.route) \in AutoTables THEN {a[TableOf(r.route)]}
  ELSE IF r.body.json # "dict" THEN {}
  ELSE LET key == PyInt(BodyGet(r.body, IdColumn(TableOf(r.route))))
       IN IF Raised(key) THEN {} ELSE {key.v.n}

\* the rows of d but the row k of table T
OtherRows(d, T, k) ==
  [t \in Tables |-> [i \in DOMAIN d[t] \ (IF t = T THEN {k} ELSE {}) |-> d[t][i]]]

\* C18: a create, update or delete changes at most the row of the id it is
\* addressed to, in the table of its resource; every other row of every table
\* is as it was, and list, get, search, /health and /auth/login (and a URL no
\* rule matches) change no row
C18_Frame ==
  [][IF req'.route \in CreateRoutes \cup UpdateRoutes \cup DeleteRoutes
       THEN IF Addressed(req', autoinc) = {} THEN db' = db
            ELSE \A k \in Addressed(req', autoinc) :
                   OtherRows(db', TableOf(req'.route), k) = OtherRows(db, TableOf(req'.route), k)
     ELSE db' = db]_vars

\* sale 2 has been created next to sale 1, which is as it was, as are the rows
\* of the other tables
C18_Witness ==
  /\ req.route = "create_sale"
  /\ resp.status = 201
  /\ DOMAIN db.sales_fact = {1, 2}
  /\ OtherRows(db, "sales_fact", 2) = SeededDb

====
